---- MODULE Spec2Model ----
(***************************************************************************)
(* Model of the synth_proto engine: SynthEngine voice bookkeeping          *)
(* (noteOn / noteOff / allNotesOff / release-cleanup timers), the          *)
(* LongReverb impulse-response generator and its setters, the Chorus,      *)
(* Reverb and EQ, SynthEngine.setParam routing, and the parameter side of  *)
(* the VoiceProcessor.                                                     *)
(*                                                                         *)
(* Numbers that are reals in the source are kept as scaled integers:       *)
(*   gains, mixes, damping, width : hundredths        (Scale = 100)        *)
(*   decay time                   : tenths of a second (DecayScale = 10)   *)
(*   pre-delay                    : milliseconds                           *)
(***************************************************************************)
EXTENDS Integers, Sequences, FiniteSets, TLC

VARIABLES
    synth,       \* SynthEngine voice state: voices map, Voice objects, timers
    lastOn,      \* history: note -> Voice created by the latest noteOn(note)
    lastCall,    \* history: note -> "on" / "off", the latest call for the note
    stopIssued,  \* history: allNotesOff was called and no noteOn came after it
    lr,          \* a LongReverb instance
    eng,         \* SynthEngine parameter side: currentParams, chorus, reverb, longReverb, eq
    vp,          \* a VoiceProcessor: params and the component settings applyParams writes
    calls,       \* number of setParam calls made so far
    expA,        \* engine after setParam(p) ; setParam(q)
    expB,        \* engine after setParam(q) ; setParam(p)
    expOn,       \* an order experiment is in progress
    unit,        \* one DSP component on its own: [kind, obj]
    ret,         \* history: value returned by the latest next() / process() call
                 \* on unit, and the stage the component was in when called
    steps,       \* number of next() / process() calls made on unit or vp
    sq,          \* a polyphonic Sequencer with the window timers it started and
                 \* the synth calls of its latest operation
    cm           \* a ChannelManager with its channels

vars == <<synth, lastOn, lastCall, stopIssued, lr, eng, vp, calls, expA, expB, expOn,
          unit, ret, steps, sq, cm>>

Max(a, b) == IF a >= b THEN a ELSE b
Min(a, b) == IF a <= b THEN a ELSE b
CeilDiv(a, b) == (a + b - 1) \div b
Abs(x) == IF x < 0 THEN -x ELSE x

\* Op applied to the value of x, with x evaluated once before Op starts
Call(Op(_), x) == CHOOSE y \in {Op(z) : z \in {x}} : TRUE

(***************************************************************************)
(* Bounds of the model                                                     *)
(***************************************************************************)
MaxVoiceObjects == 4          \* Voice objects created in one run of Spec
Notes == 1..2                 \* MIDI notes played in Spec
MaxSetParamCalls == 2         \* setParam calls made in one run of SpecParams

(***************************************************************************)
(* SynthEngine: voices                                                     *)
(***************************************************************************)
maxVoices == 12

PolyNotes == 1..(maxVoices + 1)   \* one more key than the polyphony cap

\* voices: Map<number, Voice>, as a function whose domain is the key set;
\* objs: every Voice object created so far (the Map holds references into it);
\* timers: pending setTimeout callbacks of cleanupFallbackVoice, each closing
\* over (voice, note).
SynthInit == [voices |-> <<>>, objs |-> <<>>, timers |-> {}]

MapDelete(m, k) == [x \in (DOMAIN m) \ {k} |-> m[x]]
MapSet(m, k, v) == (k :> v) @@ m

\* createFallbackVoice: a new Voice object {note, active: true} whose
\* oscillators are started
createFallbackVoice(s, note) ==
    [s EXCEPT !.objs = Append(s.objs, [note |-> note, active |-> TRUE, stopped |-> FALSE])]

\* cleanupFallbackVoice: starts the release ramps and schedules the stop timer
cleanupFallbackVoice(s, v, note) ==
    [s EXCEPT !.timers = s.timers \cup {[voice |-> v, note |-> note]}]

\* noteOff: voice.node is the plain fallback object, so voice.node.port is
\* undefined, postMessage throws, and the catch runs cleanupFallbackVoice
noteOff(s, note) ==
    IF note \in DOMAIN s.voices /\ s.objs[s.voices[note]].active
    THEN LET v == s.voices[note]
         IN cleanupFallbackVoice([s EXCEPT !.objs[v].active = FALSE], v, note)
    ELSE s

noteOn(s, note) ==
    LET s1 == IF note \in DOMAIN s.voices THEN noteOff(s, note) ELSE s
        s2 == createFallbackVoice(s1, note)
    IN [s2 EXCEPT !.voices = MapSet(s1.voices, note, Len(s2.objs))]

\* the setTimeout callback of cleanupFallbackVoice
cleanupTimeout(s, t) ==
    [s EXCEPT !.objs[t.voice].stopped = TRUE,
              !.voices = MapDelete(s.voices, t.note),
              !.timers = s.timers \ {t}]

RECURSIVE allNotesOffOver(_, _)
allNotesOffOver(s, keys) ==
    IF keys = {} THEN s
    ELSE LET k == CHOOSE x \in keys : \A y \in keys : x <= y
         IN allNotesOffOver(noteOff(s, k), keys \ {k})

allNotesOff(s) == allNotesOffOver(s, DOMAIN s.voices)

ActiveVoices(s) == {i \in 1..Len(s.objs) : s.objs[i].active}
SoundingVoices(s) == {i \in 1..Len(s.objs) : ~s.objs[i].stopped}

(***************************************************************************)
(* LongReverb                                                              *)
(***************************************************************************)
Scale == 100                  \* 1.0 of a gain / mix / damping / width
DecayScale == 10              \* 1 second of decay time
chunkSize == 44100            \* samples written per processChunk call

SampleRates == {44100, 48000} \* ctx.sampleRate of the host AudioContext

\* no AudioBuffer (null)
NullBuffer ==
    [exists |-> FALSE, numSamples |-> 0, decay |-> 0, damping |-> 0,
     stereoWidth |-> 0, offset |-> 0, chunks |-> 0, normalized |-> FALSE]

\* genPhase: "idle"     no generation is pending
\*           "filling"  a setTimeout(processChunk, 0) is pending
\*           "resolved" fillIRBuffer's promise resolved during the synchronous
\*                      first chunk; the continuation of generateIR after the
\*                      await is queued as a microtask
LongReverb_updateMix(l) ==
    [l EXCEPT !.dryTarget = Scale - l.dryWet, !.wetTarget = l.dryWet]

LongReverb_updatePreDelay(l) ==
    [l EXCEPT !.preDelayTarget = l.preDelay]

LongReverb_updateStereoWidth(l) ==
    [l EXCEPT !.leftTarget = Scale \div 2 + l.stereoWidth \div 2,
              !.rightTarget = Scale \div 2 + l.stereoWidth \div 2]

\* normalizeBuffer: scales the samples in place to a peak of 0.7
LongReverb_normalizeBuffer(b) == [b EXCEPT !.normalized = TRUE]

\* variant of processChunk that fills the rest of the buffer in one call
LongReverb_processChunk_unchunked(l) ==
    [l EXCEPT !.gen = LongReverb_normalizeBuffer(
                        [l.gen EXCEPT !.offset = l.gen.numSamples,
                                      !.chunks = l.gen.chunks + 1]),
              !.genPhase = "resolved"]

\* processChunk (closure of fillIRBuffer): writes [offset, end) and either
\* re-arms the timer or normalizes and resolves
LongReverb_processChunk(l) ==
    LET end == Min(l.gen.offset + chunkSize, l.gen.numSamples)
        b == [l.gen EXCEPT !.offset = end, !.chunks = l.gen.chunks + 1]
    IN IF end < b.numSamples
       THEN [l EXCEPT !.gen = b, !.genPhase = "filling"]
       ELSE [l EXCEPT !.gen = LongReverb_normalizeBuffer(b), !.genPhase = "resolved"]

\* fillIRBuffer: snapshots decay, damping and stereoWidth and runs the first
\* chunk synchronously
LongReverb_fillIRBuffer(l, numSamples) ==
    LongReverb_processChunk(
        [l EXCEPT !.gen = [exists |-> TRUE, numSamples |-> numSamples,
                           decay |-> l.decayTime, damping |-> l.damping,
                           stereoWidth |-> l.stereoWidth, offset |-> 0,
                           chunks |-> 0, normalized |-> FALSE]])

\* variant of generateIR that hands the buffer to the convolver before
\* awaiting fillIRBuffer
LongReverb_generateIR_installsEarly(l) ==
    IF l.isGenerating THEN l
    ELSE LET l1 == LongReverb_fillIRBuffer([l EXCEPT !.isGenerating = TRUE],
                        CeilDiv(l.sampleRate * l.decayTime, DecayScale))
         IN [l1 EXCEPT !.convolverBuffer = l1.gen, !.irBuffer = l1.gen]

\* generateIR up to its await
LongReverb_generateIR(l) ==
    IF l.isGenerating THEN l
    ELSE LongReverb_fillIRBuffer([l EXCEPT !.isGenerating = TRUE],
                                 CeilDiv(l.sampleRate * l.decayTime, DecayScale))

\* generateIR after its await: install the finished buffer
LongReverb_generateIR_resume(l) ==
    [l EXCEPT !.convolverBuffer = l.gen, !.irBuffer = l.gen,
              !.isGenerating = FALSE, !.gen = NullBuffer, !.genPhase = "idle"]

\* variant of the timer callback whose chunk reads this.params instead of
\* the values fillIRBuffer captured
LongReverb_chunkTimeout_readsParams(l) ==
    LET l1 == LongReverb_processChunk(
                  [l EXCEPT !.gen.decay = l.decayTime,
                            !.gen.damping = l.damping,
                            !.gen.stereoWidth = l.stereoWidth])
    IN IF l1.genPhase = "resolved" THEN LongReverb_generateIR_resume(l1) ELSE l1

\* one run of the setTimeout callback, followed by the microtask checkpoint
LongReverb_chunkTimeout(l) ==
    LET l1 == LongReverb_processChunk(l)
    IN IF l1.genPhase = "resolved" THEN LongReverb_generateIR_resume(l1) ELSE l1

LongReverb_setDecayTime(l, seconds) ==
    LongReverb_generateIR([l EXCEPT !.decayTime =
        Max(1 * DecayScale, Min(30 * DecayScale, seconds))])

LongReverb_setPreDelay(l, ms) ==
    LongReverb_updatePreDelay([l EXCEPT !.preDelay = Max(0, Min(200, ms))])

LongReverb_setDamping(l, value) ==
    LongReverb_generateIR([l EXCEPT !.damping = Max(0, Min(Scale, value))])

\* variant of setDryWet that also regenerates the IR
LongReverb_setDryWet_regenerates(l, value) ==
    LongReverb_generateIR(LongReverb_updateMix([l EXCEPT !.dryWet = Max(0, Min(Scale, value))]))

LongReverb_setDryWet(l, value) ==
    LongReverb_updateMix([l EXCEPT !.dryWet = Max(0, Min(Scale, value))])

LongReverb_setStereoWidth(l, value) ==
    LongReverb_generateIR(LongReverb_updateStereoWidth(
        [l EXCEPT !.stereoWidth = Max(0, Min(Scale, value))]))

\* setParams: p is a Partial<LongReverbParams>, a function on the names given
LongReverb_setParams(l, p) ==
    LET has(k) == k \in DOMAIN p
        needsRegen == has("decayTime") \/ has("damping") \/ has("stereoWidth")
        l1 == [l EXCEPT
                !.decayTime = IF has("decayTime")
                              THEN Max(1 * DecayScale, Min(30 * DecayScale, p["decayTime"]))
                              ELSE @,
                !.preDelay = IF has("preDelay") THEN Max(0, Min(200, p["preDelay"])) ELSE @,
                !.damping = IF has("damping") THEN Max(0, Min(Scale, p["damping"])) ELSE @,
                !.dryWet = IF has("dryWet") THEN Max(0, Min(Scale, p["dryWet"])) ELSE @,
                !.stereoWidth = IF has("stereoWidth")
                                THEN Max(0, Min(Scale, p["stereoWidth"])) ELSE @]
        l2 == LongReverb_updateStereoWidth(LongReverb_updatePreDelay(LongReverb_updateMix(l1)))
    IN IF needsRegen THEN LongReverb_generateIR(l2) ELSE l2

LongReverb_setEnabled(l, enabled) ==
    IF enabled
    THEN [l EXCEPT !.enabled = TRUE, !.dryTarget = Scale - l.dryWet, !.wetTarget = l.dryWet]
    ELSE [l EXCEPT !.enabled = FALSE, !.dryTarget = Scale, !.wetTarget = 0]

\* new LongReverb(ctx): default params, fresh nodes (gain 1, delay 0),
\* generateIR(), updateMix()
LongReverb_new(sr) ==
    LongReverb_updateMix(LongReverb_generateIR(
        [sampleRate |-> sr,
         decayTime |-> 8 * DecayScale, preDelay |-> 20, damping |-> 30,
         dryWet |-> 30, stereoWidth |-> 80,
         enabled |-> TRUE, isGenerating |-> FALSE,
         gen |-> NullBuffer, genPhase |-> "idle",
         convolverBuffer |-> NullBuffer, irBuffer |-> NullBuffer,
         dryTarget |-> Scale, wetTarget |-> Scale, preDelayTarget |-> 0,
         leftTarget |-> Scale, rightTarget |-> Scale]))

(***************************************************************************)
(* Chorus.  rate: hundredths of a Hz; LFO frequency targets: thousandths   *)
(* of a Hz (rate * 1.1 is rate * 11); LFO gain targets: units of 1e-5      *)
(* (depth * 0.005 is depth * 5).                                           *)
(***************************************************************************)
Chorus_setRate(c, rate) ==
    [c EXCEPT !.rate = rate, !.lfoLTarget = rate * 10, !.lfoRTarget = rate * 11]

Chorus_setDepth(c, depth) ==
    [c EXCEPT !.depth = depth, !.lfoGainLTarget = depth * 5, !.lfoGainRTarget = depth * 5]

\* setMix without the check of _enabled
Chorus_setMix_whileDisabled(c, mix) ==
    [c EXCEPT !.mix = mix, !.dryTarget = Scale - mix,
              !.wetLTarget = mix, !.wetRTarget = mix]

Chorus_setMix(c, mix) ==
    IF ~c.enabled THEN [c EXCEPT !.mix = mix]
    ELSE [c EXCEPT !.mix = mix, !.dryTarget = Scale - mix,
                   !.wetLTarget = mix, !.wetRTarget = mix]

Chorus_setEnabled(c, enabled) ==
    IF enabled
    THEN [c EXCEPT !.enabled = TRUE, !.dryTarget = Scale - c.mix,
                   !.wetLTarget = c.mix, !.wetRTarget = c.mix]
    ELSE [c EXCEPT !.enabled = FALSE, !.dryTarget = Scale,
                   !.wetLTarget = 0, !.wetRTarget = 0]

Chorus_new ==
    Chorus_setMix(
        [rate |-> 50, depth |-> 30, mix |-> 10, enabled |-> TRUE,
         dryTarget |-> Scale, wetLTarget |-> Scale, wetRTarget |-> Scale,
         lfoLTarget |-> 50 * 10, lfoRTarget |-> 50 * 11,
         lfoGainLTarget |-> 30 * 5, lfoGainRTarget |-> 30 * 5], 10)

(***************************************************************************)
(* Reverb.  decay: tenths of a second; mix: hundredths; lowCut: Hz.        *)
(***************************************************************************)
\* generateImpulse: synchronous; the convolver gets an impulse of this decay
Reverb_generateImpulse(r, decay) == [r EXCEPT !.impulseDecay = decay]

Reverb_setDecay(r, decay) ==
    IF Abs(decay - r.decay) > DecayScale \div 2
    THEN Reverb_generateImpulse([r EXCEPT !.decay = decay], decay)
    ELSE r

Reverb_setMix(r, mix) ==
    [r EXCEPT !.mix = mix, !.dryTarget = Scale - mix \div 2, !.wetTarget = mix]

Reverb_setLowCut(r, freq) ==
    [r EXCEPT !.lowCut = freq, !.lowCutTarget = freq]

Reverb_new ==
    Reverb_setMix(Reverb_generateImpulse(
        [decay |-> 4 * DecayScale, mix |-> 25, lowCut |-> 300, impulseDecay |-> 0,
         dryTarget |-> Scale, wetTarget |-> Scale, lowCutTarget |-> 300],
        4 * DecayScale), 25)

(***************************************************************************)
(* EQ.  Frequencies in Hz, gains in tenths of a dB.                        *)
(***************************************************************************)
EQ_setHighPassFreq(q, freq) == [q EXCEPT !.highPassTarget = freq]
EQ_setLowShelfGain(q, gain) == [q EXCEPT !.lowShelfTarget = gain]
EQ_new == [highPassTarget |-> 20, lowShelfTarget |-> 0]

(***************************************************************************)
(* Preset.  ES2_PURITY_PRESET as presetToParams flattens it: levels,       *)
(* sustains, amounts and mixes in hundredths, detunes in cents, times in   *)
(* milliseconds, rates in hundredths of a Hz, reverbDecay in tenths of a   *)
(* second, cutoffs in Hz (20 * 1000^0.42 is 364 Hz to the nearest Hz).     *)
(***************************************************************************)
ES2_PURITY_PRESET ==
    [osc1Wave |-> "sine", osc1Level |-> 100, osc1Detune |-> -9, osc1Octave |-> 0,
     osc1Semitone |-> 0,
     osc2Wave |-> "sine", osc2Level |-> 80, osc2Detune |-> -1, osc2Octave |-> 0,
     osc2Semitone |-> 12,
     osc3Wave |-> "sine", osc3Level |-> 55, osc3Detune |-> 10, osc3Octave |-> 0,
     osc3Semitone |-> 0,
     noiseType |-> "pink", noiseLevel |-> 4,
     filterType |-> "lp24", filterCutoff |-> 364, filterRes |-> 12,
     filterEnvAmount |-> 18, filterKeyTrack |-> 50,
     ampAttack |-> 1500, ampDecay |-> 2500, ampSustain |-> 40, ampRelease |-> 2000,
     filterAttack |-> 1400, filterDecay |-> 4200, filterSustain |-> 40,
     filterRelease |-> 2000,
     lfo1Wave |-> "sine", lfo1Rate |-> 190, lfo1Amount |-> 15, lfo1Target |-> "pan",
     lfo2Wave |-> "sine", lfo2Rate |-> 50, lfo2Amount |-> 10, lfo2Target |-> "filter",
     chorusRate |-> 25, chorusDepth |-> 25, chorusMix |-> 18,
     reverbDecay |-> 8 * DecayScale, reverbMix |-> 12, reverbLowCut |-> 250,
     eqHighPassHz |-> 140, eqLowShelfDb |-> -15]

presetToParams(preset) ==
    [k \in (DOMAIN preset) \ {"eqHighPassHz", "eqLowShelfDb"} |-> preset[k]]

(***************************************************************************)
(* SynthEngine: parameters                                                 *)
(***************************************************************************)
\* the parameter names the model uses that start with the given prefix
NamesWithPrefix(prefix) ==
    CASE prefix = "chorus" ->
            {"chorusRate", "chorusDepth", "chorusMix", "chorusEnabled", "chorusFeedback"}
      [] prefix = "reverb" -> {"reverbDecay", "reverbMix", "reverbLowCut"}
      [] prefix = "longReverb" ->
            {"longReverbDecay", "longReverbPreDelay", "longReverbDamping",
             "longReverbDryWet", "longReverbWidth", "longReverbEnabled"}

StartsWith(name, prefix) == name \in NamesWithPrefix(prefix)

SynthEngine_loadPreset(e, preset) ==
    LET params == presetToParams(preset)
    IN [e EXCEPT
         !.currentParams = params @@ e.currentParams,
         !.chorus = Chorus_setMix(Chorus_setDepth(Chorus_setRate(
                        e.chorus, params.chorusRate), params.chorusDepth), params.chorusMix),
         !.reverb = Reverb_setLowCut(Reverb_setMix(Reverb_setDecay(
                        e.reverb, params.reverbDecay), params.reverbMix), params.reverbLowCut),
         !.eq = EQ_setLowShelfGain(EQ_setHighPassFreq(
                        e.eq, preset.eqHighPassHz), preset.eqLowShelfDb)]

\* variant of setParam whose chorus block treats any other chorus* name as
\* the mix
SynthEngine_setParam_chorusDefault(e, name, value) ==
    LET e1 == [e EXCEPT !.currentParams = MapSet(e.currentParams, name, value)]
    IN IF StartsWith(name, "chorus")
       THEN [e1 EXCEPT !.chorus =
               CASE name = "chorusRate" -> Chorus_setRate(@, value)
                 [] name = "chorusDepth" -> Chorus_setDepth(@, value)
                 [] name = "chorusEnabled" -> Chorus_setEnabled(@, value)
                 [] OTHER -> Chorus_setMix(@, value)]
       ELSE e1

SynthEngine_setParam(e, name, value) ==
    LET e1 == [e EXCEPT !.currentParams = MapSet(e.currentParams, name, value)]
        e2 == IF StartsWith(name, "chorus")
              THEN [e1 EXCEPT !.chorus =
                      CASE name = "chorusRate" -> Chorus_setRate(@, value)
                        [] name = "chorusDepth" -> Chorus_setDepth(@, value)
                        [] name = "chorusMix" -> Chorus_setMix(@, value)
                        [] name = "chorusEnabled" -> Chorus_setEnabled(@, value)
                        [] OTHER -> @]
              ELSE e1
        e3 == IF StartsWith(name, "reverb")
              THEN [e2 EXCEPT !.reverb =
                      CASE name = "reverbDecay" -> Reverb_setDecay(@, value)
                        [] name = "reverbMix" -> Reverb_setMix(@, value)
                        [] name = "reverbLowCut" -> Reverb_setLowCut(@, value)
                        [] OTHER -> @]
              ELSE e2
    IN IF StartsWith(name, "longReverb")
       THEN [e3 EXCEPT !.longReverb =
               CASE name = "longReverbDecay" -> LongReverb_setDecayTime(@, value)
                 [] name = "longReverbPreDelay" -> LongReverb_setPreDelay(@, value)
                 [] name = "longReverbDamping" -> LongReverb_setDamping(@, value)
                 [] name = "longReverbDryWet" -> LongReverb_setDryWet(@, value)
                 [] name = "longReverbWidth" -> LongReverb_setStereoWidth(@, value)
                 [] name = "longReverbEnabled" -> LongReverb_setEnabled(@, value)
                 [] OTHER -> @]
       ELSE e3

\* SynthEngine.init(): create the effects, load the default preset
SynthEngine_init(sr) ==
    SynthEngine_loadPreset(
        [currentParams |-> <<>>, chorus |-> Chorus_new, reverb |-> Reverb_new,
         longReverb |-> LongReverb_new(sr), eq |-> EQ_new],
        ES2_PURITY_PRESET)

(***************************************************************************)
(* VoiceProcessor: parameter side.  Levels, sustains, resonance and        *)
(* amounts in hundredths, cutoff in Hz, envelope times in milliseconds,    *)
(* LFO rates in thousandths of a Hz.                                       *)
(***************************************************************************)
VoiceSampleRate == 44100

\* sin and cos of x, 0 <= x <= pi/2, x and the result in units of 1/10000,
\* by their power series
Sin(x) ==
    LET p2 == (x * x) \div 10000
        t3 == (x * p2) \div 60000
        t5 == (t3 * p2) \div 200000
        t7 == (t5 * p2) \div 420000
        t9 == (t7 * p2) \div 720000
    IN  x - t3 + t5 - t7 + t9

Cos(x) ==
    LET p2 == (x * x) \div 10000
        t2 == p2 \div 2
        t4 == (t2 * p2) \div 120000
        t6 == (t4 * p2) \div 300000
        t8 == (t6 * p2) \div 560000
        t10 == (t8 * p2) \div 900000
    IN  10000 - t2 + t4 - t6 + t8 - t10

(***************************************************************************)
(* LadderFilter.  Samples and stage outputs in units of 1/SampleUnit,      *)
(* cutoff in Hz, smoothedCutoff in thousandths of a Hz, resonance and k in *)
(* hundredths, drive in tenths, g in thousandths.                          *)
(***************************************************************************)
SampleUnit == 1000

LadderFilter_setCutoff(f, freq) ==
    [f EXCEPT !.cutoff = Max(20, Min(freq, (f.sampleRate * 49) \div 100))]

LadderFilter_setResonance(f, res) ==
    [f EXCEPT !.resonance = Max(0, Min(res, Scale)), !.k = Max(0, Min(res, Scale)) * 4]

LadderFilter_setDrive(f, drive) == [f EXCEPT !.drive = Max(1, Min(drive, 50))]

LadderFilter_setType(f, type) == [f EXCEPT !.filterType = type]

\* g = tan(pi * min(smoothedCutoff / sampleRate, 0.49)), k = resonance * 4
LadderFilter_updateCoefficients(f) ==
    LET x == Min((31416 * (f.smoothedCutoff \div 1000)) \div f.sampleRate,
                 (31416 * 49) \div 100)
    IN  [f EXCEPT !.g = (Sin(x) * 1000) \div Cos(x), !.k = f.resonance * 4]

\* x * x / SampleUnit for x >= 0, formed without the 32-bit product x * x
SquareOver(x) == (x \div SampleUnit) * x + ((x % SampleUnit) * x) \div SampleUnit

LadderFilter_softClip(x) ==
    IF x > SampleUnit
    THEN SampleUnit - (SampleUnit * SampleUnit) \div (SquareOver(x) + SampleUnit)
    ELSE IF x < -SampleUnit
    THEN -SampleUnit + (SampleUnit * SampleUnit) \div (SquareOver(-x) + SampleUnit)
    ELSE x - (((x * x) \div SampleUnit) * x) \div (3 * SampleUnit)

\* the four one-pole stages, each fed by the stage before it (already updated)
RECURSIVE LadderFilter_cascade(_, _, _, _)
LadderFilter_cascade(stage, i, prevStage, G) ==
    IF i > 4 THEN stage
    ELSE LET v == (G * (prevStage - stage[i])) \div 1000
             y == stage[i] + v
         IN  LadderFilter_cascade([stage EXCEPT ![i] = y + v], i + 1, y + v, G)

LadderFilter_tap(f, input) ==
    CASE f.filterType = "lp24" -> f.stage[4]
      [] f.filterType = "lp12" -> f.stage[2]
      [] f.filterType = "bp" -> f.stage[2] - f.stage[4]
      [] f.filterType = "hp" -> input - f.stage[4]
      [] OTHER -> f.stage[4]

\* the filter after one sample, up to the output tap
LadderFilter_run(f, input) ==
    LET f1 == LadderFilter_updateCoefficients(
                  [f EXCEPT !.smoothedCutoff =
                       @ + (f.cutoff * 1000 - @) \div 1000])
        x == LadderFilter_softClip((input * f1.drive) \div 10
                                     - (f1.stage[4] * f1.k) \div Scale)
        G == (f1.g * 1000) \div (1000 + f1.g)
    IN  [f1 EXCEPT !.stage = LadderFilter_cascade(@, 1, x, G)]

\* process without the output saturation
LadderFilter_process_unclipped(f, input) ==
    LET f2 == LadderFilter_run(f, input)
    IN  [filter |-> f2, output |-> LadderFilter_tap(f2, input)]

\* LadderFilter.process: the filter after the call and the sample it returns
LadderFilter_process(f, input) ==
    LET f2 == LadderFilter_run(f, input)
    IN  [filter |-> f2, output |-> LadderFilter_softClip(LadderFilter_tap(f2, input))]

LadderFilter_reset(f) ==
    [f EXCEPT !.stage = <<0, 0, 0, 0>>, !.smoothedCutoff = f.cutoff * 1000]

LadderFilter_new(sampleRate) ==
    LadderFilter_updateCoefficients(
        [sampleRate |-> sampleRate, stage |-> <<0, 0, 0, 0>>,
         cutoff |-> 1000, resonance |-> 0, drive |-> 10, filterType |-> "lp24",
         smoothedCutoff |-> 1000 * 1000, g |-> 0, k |-> 0])

(***************************************************************************)
(* Envelope.  value, targetValue, smoothedValue and the three coefficients *)
(* in units of 1/EnvUnit, so that epsilon (0.0001) is 1; times in          *)
(* milliseconds, sustain in hundredths.                                    *)
(***************************************************************************)
EnvUnit == 10000

\* Math.exp(-u) for u >= 0 in units of 1/EnvUnit, by its power series; a
\* coefficient of a positive time is below 1
ExpNeg(u) ==
    LET t2 == (u * u) \div (2 * EnvUnit)
        t3 == (t2 * u) \div (3 * EnvUnit)
        t4 == (t3 * u) \div (4 * EnvUnit)
        t5 == (t4 * u) \div (5 * EnvUnit)
        t6 == (t5 * u) \div (6 * EnvUnit)
    IN  Max(0, Min(EnvUnit - 1, EnvUnit - u + t2 - t3 + t4 - t5 + t6))

\* exp(-1 / (time * sampleRate * timeConstantMultiplier)), time in ms
Envelope_coeff(ms, sampleRate) ==
    ExpNeg((10 * EnvUnit) \div (ms * 3 * (sampleRate \div 100)))

Envelope_updateCoefficients(env) ==
    [env EXCEPT !.attackCoeff = Envelope_coeff(env.attack, env.sampleRate),
                !.decayCoeff = Envelope_coeff(env.decay, env.sampleRate),
                !.releaseCoeff = Envelope_coeff(env.release, env.sampleRate)]

\* Envelope.setParams with all four members given, as applyParams calls it
Envelope_setParams(env, params) ==
    Envelope_updateCoefficients(
        [env EXCEPT !.attack = Max(1, params.attack),
                    !.decay = Max(1, params.decay),
                    !.sustain = Max(0, Min(Scale, params.sustain)),
                    !.release = Max(1, params.release)])

Envelope_trigger(env) == [env EXCEPT !.stage = "attack", !.targetValue = EnvUnit]

\* release_ without its idle guard
Envelope_release__unguarded(env) ==
    [env EXCEPT !.stage = "release", !.targetValue = 0]

Envelope_release_(env) ==
    IF env.stage # "idle"
    THEN [env EXCEPT !.stage = "release", !.targetValue = 0]
    ELSE env

Envelope_reset(env) ==
    [env EXCEPT !.stage = "idle", !.value = 0, !.smoothedValue = 0, !.targetValue = 0]

\* isFinished that is never true
Envelope_isFinished_never(env) == env.stage = "idle" /\ env.value < 0

Envelope_isFinished(env) == env.stage = "idle" /\ env.value < 1

\* the sustain level in units of 1/EnvUnit
SustainLevel(env) == env.sustain * (EnvUnit \div Scale)

\* the release branch going idle without zeroing the value
Envelope_advance_keepsTail(env) ==
    IF env.stage = "release" /\ (env.value * env.releaseCoeff) \div EnvUnit < 1
    THEN [env EXCEPT !.stage = "idle"]
    ELSE CASE env.stage = "idle" -> [env EXCEPT !.value = 0]
           [] env.stage = "attack" ->
                 LET v == env.targetValue
                            - ((env.targetValue - env.value) * env.attackCoeff) \div EnvUnit
                 IN  IF v >= (EnvUnit * 999) \div 1000
                     THEN [env EXCEPT !.value = EnvUnit, !.stage = "decay",
                                      !.targetValue = SustainLevel(env)]
                     ELSE [env EXCEPT !.value = v]
           [] env.stage = "decay" ->
                 LET v == env.targetValue
                            + ((env.value - env.targetValue) * env.decayCoeff) \div EnvUnit
                 IN  IF Abs(v - SustainLevel(env)) < 1
                     THEN [env EXCEPT !.value = SustainLevel(env), !.stage = "sustain"]
                     ELSE [env EXCEPT !.value = v]
           [] env.stage = "sustain" -> [env EXCEPT !.value = SustainLevel(env)]
           [] env.stage = "release" ->
                 [env EXCEPT !.value = (env.value * env.releaseCoeff) \div EnvUnit]

\* the switch of Envelope.next: the new stage, value and targetValue
Envelope_advance(env) ==
    CASE env.stage = "idle" -> [env EXCEPT !.value = 0]
      [] env.stage = "attack" ->
            LET v == env.targetValue
                       - ((env.targetValue - env.value) * env.attackCoeff) \div EnvUnit
            IN  IF v >= (EnvUnit * 999) \div 1000
                THEN [env EXCEPT !.value = EnvUnit, !.stage = "decay",
                                 !.targetValue = SustainLevel(env)]
                ELSE [env EXCEPT !.value = v]
      [] env.stage = "decay" ->
            LET v == env.targetValue
                       + ((env.value - env.targetValue) * env.decayCoeff) \div EnvUnit
            IN  IF Abs(v - SustainLevel(env)) < 1
                THEN [env EXCEPT !.value = SustainLevel(env), !.stage = "sustain"]
                ELSE [env EXCEPT !.value = v]
      [] env.stage = "sustain" -> [env EXCEPT !.value = SustainLevel(env)]
      [] env.stage = "release" ->
            LET v == (env.value * env.releaseCoeff) \div EnvUnit
            IN  IF v < 1
                THEN [env EXCEPT !.value = 0, !.stage = "idle"]
                ELSE [env EXCEPT !.value = v]

\* Envelope.next: the envelope after the call; it returns smoothedValue
Envelope_next(env) ==
    LET e == Envelope_advance(env)
    IN  [e EXCEPT !.smoothedValue = (e.smoothedValue * 995 + e.value * 5) \div 1000]

Envelope_new(sampleRate) ==
    Envelope_updateCoefficients(
        [sampleRate |-> sampleRate, stage |-> "idle", value |-> 0, targetValue |-> 0,
         attack |-> 10, decay |-> 100, sustain |-> 70, release |-> 300,
         attackCoeff |-> 0, decayCoeff |-> 0, releaseCoeff |-> 0,
         smoothedValue |-> 0])

(***************************************************************************)
(* Oscillator: frequency in hundredths of a Hz.  LFO: rate in thousandths  *)
(* of a Hz.                                                                *)
(***************************************************************************)
Oscillator_setFrequency(o, freq) ==
    [o EXCEPT !.frequency = Max(1, Min(freq, o.sampleRate * 50))]

Oscillator_setWaveType(o, type) == [o EXCEPT !.waveType = type]

Oscillator_new(sampleRate) ==
    [sampleRate |-> sampleRate, frequency |-> 44000, waveType |-> "sine"]

LFO_setRate(lfo, rate) == [lfo EXCEPT !.rate = Max(1, Min(rate, 100000))]
LFO_setWaveType(lfo, type) == [lfo EXCEPT !.waveType = type]

\* Math.sin(2 * pi * p) in units of 1/10000, p in units of 1/10000 of a cycle
SinCycle(p) ==
    LET a == (62832 * p) \div 10000
    IN  IF a <= 15708 THEN Sin(a)
        ELSE IF a <= 31416 THEN Sin(31416 - a)
        ELSE IF a <= 47124 THEN -Sin(a - 31416)
        ELSE -Sin(62832 - a)

\* the cycle of the phase accumulator: phase is in units of
\* 1 / (1000 * sampleRate) of a cycle, so that dt = rate / sampleRate is rate
LFO_cycle(lfo) == 1000 * lfo.sampleRate

\* the value LFO.next returns, in units of 1/10000 (the sample-and-hold wave
\* returns the held value)
LFO_value(lfo) ==
    LET p == lfo.phase \div (LFO_cycle(lfo) \div 10000)
    IN  CASE lfo.waveType = "sine" -> SinCycle(p)
          [] lfo.waveType = "triangle" -> 2 * Abs(2 * p - 10000) - 10000
          [] lfo.waveType = "saw" -> 2 * p - 10000
          [] lfo.waveType = "square" -> IF p < 5000 THEN 10000 ELSE -10000
          [] OTHER -> lfo.shValue

\* the LFO after LFO.next: the phase advanced by dt and wrapped
LFO_next(lfo) ==
    [lfo EXCEPT !.phase = IF @ + lfo.rate >= LFO_cycle(lfo)
                          THEN @ + lfo.rate - LFO_cycle(lfo)
                          ELSE @ + lfo.rate]

LFO_new(sampleRate) ==
    [sampleRate |-> sampleRate, phase |-> 0, rate |-> 1000, waveType |-> "sine",
     shValue |-> 0]

(***************************************************************************)
(* 2^x and the frequencies derived from it.  Exponents are in units of     *)
(* 1/10000 of a cent (12 000 000 to the octave), factors in units of       *)
(* 1/10000, frequencies in hundredths of a Hz.                             *)
(***************************************************************************)
Octave == 12000000

RECURSIVE Shift(_, _)
Shift(x, n) == IF n = 0 THEN x ELSE IF n > 0 THEN Shift(2 * x, n - 1) ELSE Shift(x \div 2, n + 1)

\* Math.pow(2, c / Octave), by the power series of exp on the fractional
\* octave, y = f * ln 2:  1 + y (1 + y/2 (1 + y/3 (1 + y/4 (1 + y/5 (1 + y/6)))))
Pow2(c) ==
    LET oct == c \div Octave
        y == (((c % Octave) \div (Octave \div 10000)) * 6931) \div 10000
        h5 == 10000 + y \div 6
        h4 == 10000 + (y * h5) \div 50000
        h3 == 10000 + (y * h4) \div 40000
        h2 == 10000 + (y * h3) \div 30000
        h1 == 10000 + (y * h2) \div 20000
    IN  Shift(10000 + (y * h1) \div 10000, oct)

\* a * factor for a factor in units of 1/10000, without the full 32-bit product
Times(a, factor) ==
    Call(LAMBDA f :
           Call(LAMBDA x : x * (f \div 10000) + (x * (f % 10000)) \div 10000, a),
         factor)

midiToFreq(note) == Times(44000, Pow2((note - 69) * 1000000))

VoiceProcessor_applyParams(v) ==
    [v EXCEPT
      !.osc1 = Oscillator_setWaveType(@, v.params.osc1Wave),
      !.osc2 = Oscillator_setWaveType(@, v.params.osc2Wave),
      !.osc3 = Oscillator_setWaveType(@, v.params.osc3Wave),
      !.noiseType = v.params.noiseType,
      !.filter = LadderFilter_setResonance(LadderFilter_setCutoff(LadderFilter_setType(
                    @, v.params.filterType), v.params.filterCutoff), v.params.filterRes),
      !.ampEnv = Envelope_setParams(@,
                    [attack |-> v.params.ampAttack, decay |-> v.params.ampDecay,
                     sustain |-> v.params.ampSustain, release |-> v.params.ampRelease]),
      !.filterEnv = Envelope_setParams(@,
                    [attack |-> v.params.filterAttack, decay |-> v.params.filterDecay,
                     sustain |-> v.params.filterSustain, release |-> v.params.filterRelease]),
      !.lfo1 = LFO_setRate(LFO_setWaveType(@, v.params.lfo1Wave), v.params.lfo1Rate),
      !.lfo2 = LFO_setRate(LFO_setWaveType(@, v.params.lfo2Wave), v.params.lfo2Rate)]

VoiceProcessor_setParam(v, name, value) ==
    VoiceProcessor_applyParams([v EXCEPT !.params = MapSet(v.params, name, value)])

\* baseFreq * 2^octave * 2^(detune / 1200) * modMult, as the code multiplies
OscFrequency(baseFreq, octave, detune, modMult) ==
    Call(LAMBDA shifted :
           Call(LAMBDA detuned : Times(detuned, modMult),
                Times(shifted, Pow2(detune * 10000))),
         Times(baseFreq, Pow2(octave * Octave)))

\* osc.setFrequency(baseFreq * 2^octave * 2^(detune / 1200) * modMult)
Oscillator_tune(osc, baseFreq, octave, detune, modMult) ==
    Call(LAMBDA freq : Oscillator_setFrequency(osc, freq),
         OscFrequency(baseFreq, octave, detune, modMult))

\* the three oscillator frequencies for a base frequency and a modulation
\* multiplier
VoiceProcessor_modulate(v, baseFreq, modMult) ==
    [v EXCEPT
      !.osc1 = Oscillator_tune(@, baseFreq,
                  v.params.osc1Octave, v.params.osc1Detune, modMult),
      !.osc2 = Oscillator_tune(@, baseFreq,
                  v.params.osc2Octave, v.params.osc2Detune, modMult),
      !.osc3 = Oscillator_tune(@, baseFreq,
                  v.params.osc3Octave, v.params.osc3Detune, modMult)]

VoiceProcessor_updateOscFrequencies(v, baseFreq) ==
    VoiceProcessor_modulate(v, baseFreq, 10000)

\* filterCutoff * 2^((note - 60) / 60 * filterKeyTrack)
KeyTrackedCutoff(v, note) ==
    Times(v.params.filterCutoff, Pow2((note - 60) * v.params.filterKeyTrack * 2000))

VoiceProcessor_noteOn(v, note, velocity) ==
    LET v1 == VoiceProcessor_updateOscFrequencies(
                  [v EXCEPT !.note = note, !.velocity = velocity, !.isActive = TRUE],
                  midiToFreq(note))
    IN  [v1 EXCEPT !.filter = LadderFilter_setCutoff(@, KeyTrackedCutoff(v1, note)),
                   !.ampEnv = Envelope_trigger(@),
                   !.filterEnv = Envelope_trigger(@)]

VoiceProcessor_noteOff(v) ==
    [v EXCEPT !.ampEnv = Envelope_release_(@), !.filterEnv = Envelope_release_(@)]

\* the modulation one LFO sends to a target, in units of 1/1000000
LfoTo(target, lfoTarget, lfoVal, amount) ==
    IF lfoTarget = target THEN lfoVal * amount ELSE 0

\* pitchMod of a sample, in units of 1/10000 of a cent (LFO value * amount * 100)
PitchMod(v) ==
    LfoTo("pitch", v.params.lfo1Target, LFO_value(v.lfo1), v.params.lfo1Amount)
      + LfoTo("pitch", v.params.lfo2Target, LFO_value(v.lfo2), v.params.lfo2Amount)

\* filterMod of a sample, in units of 1/1000000
FilterMod(v) ==
    LfoTo("filter", v.params.lfo1Target, LFO_value(v.lfo1), v.params.lfo1Amount)
      + LfoTo("filter", v.params.lfo2Target, LFO_value(v.lfo2), v.params.lfo2Amount)

\* envCutoffMod = filterEnvVal * filterEnvAmount * 10000 and
\* lfo1CutoffMod = filterMod * 5000, in Hz
EnvCutoffMod(v, filterEnvVal) == (filterEnvVal * v.params.filterEnvAmount) \div 100
LfoCutoffMod(filterMod) == filterMod \div 200

\* lines 283-307 of the sample loop: both LFOs are read and advanced, and
\* their routing gives the locals pitchMod and filterMod of the pass
VoiceProcessor_lfoPass(v) ==
    [v EXCEPT !.pitchMod = PitchMod(v),
              !.filterMod = FilterMod(v),
              !.lfo1 = LFO_next(@),
              !.lfo2 = LFO_next(@)]

\* lines 310-319: the oscillators after the pitch modulation of the pass
VoiceProcessor_pitchPass(v) ==
    IF v.pitchMod # 0
    THEN Call(LAMBDA baseFreq :
                Call(LAMBDA modMult : VoiceProcessor_modulate(v, baseFreq, modMult),
                     Pow2(v.pitchMod)),
              midiToFreq(v.note))
    ELSE v

\* lines 331-332: the filter envelope advances and gives envCutoffMod
VoiceProcessor_filterEnvPass(v) ==
    Call(LAMBDA fe : [v EXCEPT !.filterEnv = fe,
                               !.envCutoffMod = EnvCutoffMod(v, fe.smoothedValue)],
         Envelope_next(v.filterEnv))

\* lines 333-340: the cutoff the filter is driven with, and the amplitude
\* envelope
VoiceProcessor_filterPass(v) ==
    [v EXCEPT
      !.lfoCutoffMod = LfoCutoffMod(v.filterMod),
      !.filter = LadderFilter_setCutoff(@,
                    v.params.filterCutoff + v.envCutoffMod + LfoCutoffMod(v.filterMod)),
      !.ampEnv = Envelope_next(@)]

\* one pass of the sample loop of process.  The audio samples themselves
\* (oscillator and noise outputs, the filter's stage memory, the pan law)
\* are not represented; pitchMod, filterMod, envCutoffMod and lfoCutoffMod
\* are the locals of the pass
VoiceProcessor_renderSample(v) ==
    Call(VoiceProcessor_filterPass,
         Call(VoiceProcessor_filterEnvPass,
              Call(VoiceProcessor_pitchPass, VoiceProcessor_lfoPass(v))))

\* the sample loop of process: n passes are the first half of the passes
\* followed by the rest, which keeps the evaluation depth logarithmic in n
RECURSIVE VoiceProcessor_renderBlock(_, _)
VoiceProcessor_renderBlock(v, n) ==
    IF n = 0 THEN v
    ELSE IF n = 1 THEN VoiceProcessor_renderSample(v)
    ELSE Call(LAMBDA half : VoiceProcessor_renderBlock(half, n - (n \div 2)),
              VoiceProcessor_renderBlock(v, n \div 2))

\* the test that opens process: the block is filled with zeros and nothing
\* else is done
VoiceProcessor_zeroPath(v) == ~v.isActive /\ Envelope_isFinished(v.ampEnv)

\* lines 357-360: the voice is marked inactive when the envelope finished
VoiceProcessor_blockEnd(v) ==
    IF Envelope_isFinished(v.ampEnv) THEN [v EXCEPT !.isActive = FALSE] ELSE v

\* process marking the voice inactive at every block end
VoiceProcessor_process_dropsTail(v, blockSize) ==
    IF VoiceProcessor_zeroPath(v) THEN v
    ELSE [VoiceProcessor_renderBlock(v, blockSize) EXCEPT !.isActive = FALSE]

\* VoiceProcessor.process: the voice after the call
VoiceProcessor_process(v, blockSize) ==
    IF VoiceProcessor_zeroPath(v) THEN v
    ELSE Call(VoiceProcessor_blockEnd, VoiceProcessor_renderBlock(v, blockSize))

VoiceProcessor_new ==
    VoiceProcessor_applyParams(
        [osc1 |-> Oscillator_new(VoiceSampleRate),
         osc2 |-> Oscillator_new(VoiceSampleRate),
         osc3 |-> Oscillator_new(VoiceSampleRate),
         noiseType |-> "off",
         filter |-> LadderFilter_new(VoiceSampleRate),
         ampEnv |-> Envelope_new(VoiceSampleRate),
         filterEnv |-> Envelope_new(VoiceSampleRate),
         lfo1 |-> LFO_new(VoiceSampleRate), lfo2 |-> LFO_new(VoiceSampleRate),
         note |-> 60, velocity |-> 0, isActive |-> FALSE,
         pitchMod |-> 0, filterMod |-> 0, envCutoffMod |-> 0, lfoCutoffMod |-> 0,
         params |->
           [osc1Wave |-> "sine", osc1Level |-> 100, osc1Detune |-> 0, osc1Octave |-> 0,
            osc2Wave |-> "sine", osc2Level |-> 70, osc2Detune |-> 3, osc2Octave |-> 0,
            osc3Wave |-> "sine", osc3Level |-> 40, osc3Detune |-> -3, osc3Octave |-> 0,
            noiseType |-> "off", noiseLevel |-> 0,
            filterType |-> "lp24", filterCutoff |-> 2000, filterRes |-> 10,
            filterEnvAmount |-> 20, filterKeyTrack |-> 50,
            ampAttack |-> 2500, ampDecay |-> 1000, ampSustain |-> 85,
            ampRelease |-> 6000,
            filterAttack |-> 500, filterDecay |-> 2000, filterSustain |-> 30,
            filterRelease |-> 4000,
            lfo1Wave |-> "sine", lfo1Rate |-> 30, lfo1Amount |-> 15, lfo1Target |-> "pan",
            lfo2Wave |-> "sine", lfo2Rate |-> 1000, lfo2Amount |-> 0,
            lfo2Target |-> "filter",
            velocity |-> 100, pan |-> 0]])

(***************************************************************************)
(* Inputs of the LongReverb setters                                        *)
(***************************************************************************)
DecayInputs == {5, 15}              \* 0.5 s (clamps to 1 s), 1.5 s
PreDelayInputs == {250}             \* 250 ms, clamps to 200
DampingInputs == {60}
DryWetInputs == {50}
WidthInputs == {-20}                \* -0.2, clamps to 0

ParamsInputs ==
    { [k \in {"dryWet"} |-> 50],
      [k \in {"preDelay", "dryWet"} |-> IF k = "preDelay" THEN 250 ELSE 50],
      [k \in {"decayTime"} |-> 5],
      [k \in {"damping", "stereoWidth", "dryWet"} |->
            IF k = "damping" THEN 60 ELSE IF k = "stereoWidth" THEN -20 ELSE 50] }

DownstreamOnly(p) == DOMAIN p \subseteq {"preDelay", "dryWet"}

(***************************************************************************)
(* State after construction                                                *)
(***************************************************************************)
NoUnit == [kind |-> "none"]

NoReturn == [value |-> 0, stage |-> "none"]

UnitInit(u) ==
    /\ unit = u
    /\ ret = NoReturn
    /\ steps = 0

\* no sequencer and no channel manager has been constructed
TransportInit ==
    /\ sq = <<>>
    /\ cm = <<>>

VoicesInit ==
    /\ synth = SynthInit
    /\ lastOn = <<>>
    /\ lastCall = <<>>
    /\ stopIssued = FALSE

ParamsInit(sr) ==
    /\ eng = SynthEngine_init(sr)
    /\ vp = VoiceProcessor_new
    /\ calls = 0
    /\ expA = eng
    /\ expB = eng
    /\ expOn = FALSE

Init ==
    /\ VoicesInit
    /\ TransportInit
    /\ UnitInit(NoUnit)
    /\ lr = LongReverb_new(44100)
    /\ ParamsInit(44100)

InitReverb ==
    /\ VoicesInit
    /\ TransportInit
    /\ UnitInit(NoUnit)
    /\ \E sr \in SampleRates : lr = LongReverb_new(sr)
    /\ ParamsInit(44100)

InitParams ==
    /\ VoicesInit
    /\ TransportInit
    /\ UnitInit(NoUnit)
    /\ lr = LongReverb_new(44100)
    /\ \E sr \in SampleRates : ParamsInit(sr)

(***************************************************************************)
(* Actions: SynthEngine voices                                             *)
(***************************************************************************)
ReverbVars == <<lr>>
ParamVars == <<eng, vp, calls, expA, expB, expOn>>
VoiceVars == <<synth, lastOn, lastCall, stopIssued>>
UnitVars == <<unit, ret, steps>>
SeqVars == <<sq, cm>>

NoteOnCall(n) ==
    /\ synth' = noteOn(synth, n)
    /\ lastOn' = MapSet(lastOn, n, Len(synth'.objs))
    /\ lastCall' = MapSet(lastCall, n, "on")
    /\ stopIssued' = FALSE
    /\ UNCHANGED <<ReverbVars, ParamVars, UnitVars, SeqVars>>

NoteOn ==
    \E n \in Notes :
        /\ Len(synth.objs) < MaxVoiceObjects
        /\ NoteOnCall(n)

NoteOff ==
    \E n \in Notes :
        /\ synth' = noteOff(synth, n)
        /\ lastCall' = IF n \in DOMAIN lastOn THEN MapSet(lastCall, n, "off") ELSE lastCall
        /\ UNCHANGED <<lastOn, stopIssued, ReverbVars, ParamVars, UnitVars, SeqVars>>

AllNotesOff ==
    /\ synth' = allNotesOff(synth)
    /\ lastCall' = [n \in DOMAIN lastCall |->
                        IF n \in DOMAIN synth.voices THEN "off" ELSE lastCall[n]]
    /\ stopIssued' = TRUE
    /\ UNCHANGED <<lastOn, ReverbVars, ParamVars, UnitVars, SeqVars>>

\* The delay of a cleanup timer is the voice's release time (ampRelease when
\* the voice was created) plus 100 ms, so pending timers of different voices
\* may fire in either order.
CleanupTimeout ==
    \E t \in synth.timers :
        /\ synth' = cleanupTimeout(synth, t)
        /\ UNCHANGED <<lastOn, lastCall, stopIssued, ReverbVars, ParamVars, UnitVars, SeqVars>>

Next == NoteOn \/ NoteOff \/ AllNotesOff \/ CleanupTimeout

Spec == Init /\ [][Next]_vars

\* A chord built up one key at a time, from the lowest of PolyNotes upwards
PolyNoteOn ==
    /\ Len(synth.objs) + 1 \in PolyNotes
    /\ NoteOnCall(Len(synth.objs) + 1)

NextPoly == PolyNoteOn \/ AllNotesOff \/ CleanupTimeout

SpecPoly == Init /\ [][NextPoly]_vars

(***************************************************************************)
(* Actions: LongReverb                                                     *)
(***************************************************************************)
LRStep(l) ==
    /\ lr' = l
    /\ UNCHANGED <<VoiceVars, ParamVars, UnitVars, SeqVars>>

SetDecayTime == \E x \in DecayInputs : LRStep(LongReverb_setDecayTime(lr, x))
SetPreDelay == \E x \in PreDelayInputs : LRStep(LongReverb_setPreDelay(lr, x))
SetDamping == \E x \in DampingInputs : LRStep(LongReverb_setDamping(lr, x))
SetDryWet == \E x \in DryWetInputs : LRStep(LongReverb_setDryWet(lr, x))
SetStereoWidth == \E x \in WidthInputs : LRStep(LongReverb_setStereoWidth(lr, x))
SetParams ==
    \E p \in ParamsInputs :
        LRStep(LongReverb_setParams(lr, p))
SetEnabled == \E b \in BOOLEAN : LRStep(LongReverb_setEnabled(lr, b))

\* the pending setTimeout(processChunk, 0) fires
ChunkTimeout ==
    /\ lr.genPhase = "filling"
    /\ LRStep(LongReverb_chunkTimeout(lr))

\* the queued continuation of generateIR runs
GenerateIRResume ==
    /\ lr.genPhase = "resolved"
    /\ LRStep(LongReverb_generateIR_resume(lr))

NextReverb ==
    \/ SetDecayTime \/ SetPreDelay \/ SetDamping \/ SetDryWet \/ SetStereoWidth
    \/ SetParams \/ SetEnabled \/ ChunkTimeout \/ GenerateIRResume

SpecReverb == InitReverb /\ [][NextReverb]_vars

\* setTimeout callbacks and queued microtasks are eventually run by the event loop
SpecReverbFair == SpecReverb /\ WF_vars(ChunkTimeout) /\ WF_vars(GenerateIRResume)

(***************************************************************************)
(* Actions: SynthEngine.setParam, VoiceProcessor.setParam                  *)
(***************************************************************************)
\* <<name, value>> pairs passed to SynthEngine.setParam; "glideTime" and
\* "chorusFeedback" are names no code path knows
ParamInputs ==
    { <<"chorusRate", 50>>, <<"chorusDepth", 30>>, <<"chorusMix", 40>>,
      <<"chorusEnabled", FALSE>>, <<"chorusEnabled", TRUE>>,
      <<"reverbDecay", 20>>, <<"reverbMix", 20>>, <<"reverbLowCut", 200>>,
      <<"longReverbDecay", 5>>, <<"longReverbPreDelay", 250>>,
      <<"longReverbDamping", 60>>, <<"longReverbDryWet", 50>>,
      <<"longReverbWidth", -20>>,
      <<"longReverbEnabled", FALSE>>, <<"longReverbEnabled", TRUE>>,
      <<"filterCutoff", 500>>,
      <<"glideTime", 7>>, <<"chorusFeedback", 7>> }

VoiceParamInputs ==
    { <<"filterCutoff", 500>>, <<"ampSustain", 150>>, <<"glideTime", 7>> }

UnknownNames == {"glideTime", "chorusFeedback"}

EngineStep(e) ==
    /\ eng' = e
    /\ UNCHANGED <<VoiceVars, ReverbVars, vp, expA, expB, expOn, UnitVars, SeqVars>>

EngSetParamCall(name, value) ==
    /\ calls < MaxSetParamCalls
    /\ calls' = calls + 1
    /\ EngineStep(SynthEngine_setParam(eng, name, value))

EngSetParam == \E i \in ParamInputs : EngSetParamCall(i[1], i[2])

VoiceSetParamCall(name, value) ==
    /\ calls < MaxSetParamCalls
    /\ calls' = calls + 1
    /\ vp' = VoiceProcessor_setParam(vp, name, value)
    /\ UNCHANGED <<VoiceVars, ReverbVars, eng, expA, expB, expOn, UnitVars, SeqVars>>

VoiceSetParam == \E i \in VoiceParamInputs : VoiceSetParamCall(i[1], i[2])

\* the engine's LongReverb runs a pending chunk timer / await continuation
EngChunkTimeout ==
    /\ eng.longReverb.genPhase = "filling"
    /\ UNCHANGED calls
    /\ EngineStep([eng EXCEPT !.longReverb = LongReverb_chunkTimeout(@)])

EngGenerateIRResume ==
    /\ eng.longReverb.genPhase = "resolved"
    /\ UNCHANGED calls
    /\ EngineStep([eng EXCEPT !.longReverb = LongReverb_generateIR_resume(@)])

NextParams == EngSetParam \/ VoiceSetParam \/ EngChunkTimeout \/ EngGenerateIRResume

SpecParams == InitParams /\ [][NextParams]_vars

(***************************************************************************)
(* Actions: two setParam calls applied in both orders to copies of the     *)
(* engine, each copy then left alone until its IR generation is finished   *)
(***************************************************************************)
Quiescent(e) == e.longReverb.genPhase = "idle"

Settle(e) ==
    CASE e.longReverb.genPhase = "filling" ->
            [e EXCEPT !.longReverb = LongReverb_chunkTimeout(@)]
      [] e.longReverb.genPhase = "resolved" ->
            [e EXCEPT !.longReverb = LongReverb_generateIR_resume(@)]
      [] OTHER -> e

\* the engine's own generation advances before the calls are made
OrderWarmup ==
    /\ ~expOn
    /\ ~Quiescent(eng)
    /\ eng' = Settle(eng)
    /\ expA' = eng'
    /\ expB' = eng'
    /\ UNCHANGED <<VoiceVars, ReverbVars, vp, calls, expOn, UnitVars, SeqVars>>

OrderFork ==
    \E p \in ParamInputs, q \in ParamInputs :
        /\ ~expOn
        /\ p[1] # q[1]
        /\ expA' = SynthEngine_setParam(SynthEngine_setParam(eng, p[1], p[2]), q[1], q[2])
        /\ expB' = SynthEngine_setParam(SynthEngine_setParam(eng, q[1], q[2]), p[1], p[2])
        /\ expOn' = TRUE
        /\ UNCHANGED <<VoiceVars, ReverbVars, eng, vp, calls, UnitVars, SeqVars>>

OrderSettle ==
    /\ expOn
    /\ ~(Quiescent(expA) /\ Quiescent(expB))
    /\ expA' = Settle(expA)
    /\ expB' = Settle(expB)
    /\ UNCHANGED <<VoiceVars, ReverbVars, eng, vp, calls, expOn, UnitVars, SeqVars>>

OrderDone ==
    /\ expOn
    /\ Quiescent(expA) /\ Quiescent(expB)
    /\ expA' = eng
    /\ expB' = eng
    /\ expOn' = FALSE
    /\ UNCHANGED <<VoiceVars, ReverbVars, eng, vp, calls, UnitVars, SeqVars>>

NextOrder == OrderWarmup \/ OrderFork \/ OrderSettle \/ OrderDone

SpecOrder == InitParams /\ [][NextOrder]_vars

(***************************************************************************)
(* Actions: an Envelope on its own                                         *)
(***************************************************************************)
MaxNextCalls == 9            \* next() calls made in one run of SpecEnvelope

EnvelopeSampleRates == {300}  \* 1 ms at 300 Hz: a coefficient of exp(-1/0.9)

\* the minimum times (0 clamps to 1 ms) with two sustain levels, one above 1
EnvelopeParamInputs ==
    { [attack |-> 0, decay |-> 1, sustain |-> 50, release |-> 1],
      [attack |-> 1, decay |-> 1, sustain |-> 120, release |-> 1] }

InitEnvelope ==
    /\ VoicesInit
    /\ TransportInit
    /\ lr = LongReverb_new(44100)
    /\ ParamsInit(44100)
    /\ \E sr \in EnvelopeSampleRates :
          UnitInit([kind |-> "Envelope", obj |-> Envelope_new(sr)])

UnitCall(o) ==
    /\ unit' = [unit EXCEPT !.obj = o]
    /\ UNCHANGED <<VoiceVars, ReverbVars, ParamVars, ret, steps, SeqVars>>

EnvTrigger == unit.kind = "Envelope" /\ UnitCall(Envelope_trigger(unit.obj))

EnvRelease == unit.kind = "Envelope" /\ UnitCall(Envelope_release_(unit.obj))

EnvReset == unit.kind = "Envelope" /\ UnitCall(Envelope_reset(unit.obj))

EnvSetParams ==
    /\ unit.kind = "Envelope"
    /\ \E p \in EnvelopeParamInputs : UnitCall(Envelope_setParams(unit.obj, p))

EnvNext ==
    /\ unit.kind = "Envelope"
    /\ steps < MaxNextCalls
    /\ steps' = steps + 1
    /\ unit' = [unit EXCEPT !.obj = Envelope_next(@)]
    /\ ret' = [value |-> unit'.obj.smoothedValue, stage |-> unit.obj.stage]
    /\ UNCHANGED <<VoiceVars, ReverbVars, ParamVars, SeqVars>>

NextEnvelope == EnvTrigger \/ EnvRelease \/ EnvReset \/ EnvSetParams \/ EnvNext

SpecEnvelope == InitEnvelope /\ [][NextEnvelope]_vars

(***************************************************************************)
(* Actions: a LadderFilter on its own                                      *)
(***************************************************************************)
MaxProcessCalls == 2          \* process() calls made in one run of SpecFilter

CutoffInputs == {-5, 30000}   \* below 20 Hz, above 0.49 * sampleRate
ResonanceInputs == {500}      \* 5.0 (clamps to 1.0)
DriveInputs == {80}           \* 8.0 (clamps to 5.0)
FilterTypes == {"lp24", "lp12", "bp", "hp"}
SampleInputs == {-SampleUnit, SampleUnit}

InitUnit(u) ==
    /\ VoicesInit
    /\ TransportInit
    /\ lr = LongReverb_new(44100)
    /\ ParamsInit(44100)
    /\ UnitInit(u)

InitFilter == InitUnit([kind |-> "LadderFilter", obj |-> LadderFilter_new(VoiceSampleRate)])

FltSetCutoff ==
    /\ unit.kind = "LadderFilter"
    /\ \E x \in CutoffInputs : UnitCall(LadderFilter_setCutoff(unit.obj, x))

FltSetResonance ==
    /\ unit.kind = "LadderFilter"
    /\ \E x \in ResonanceInputs : UnitCall(LadderFilter_setResonance(unit.obj, x))

FltSetDrive ==
    /\ unit.kind = "LadderFilter"
    /\ \E x \in DriveInputs : UnitCall(LadderFilter_setDrive(unit.obj, x))

FltSetType ==
    /\ unit.kind = "LadderFilter"
    /\ \E t \in FilterTypes : UnitCall(LadderFilter_setType(unit.obj, t))

FltReset == unit.kind = "LadderFilter" /\ UnitCall(LadderFilter_reset(unit.obj))

FltProcess ==
    /\ unit.kind = "LadderFilter"
    /\ steps < MaxProcessCalls
    /\ steps' = steps + 1
    /\ \E input \in SampleInputs :
          LET r == LadderFilter_process(unit.obj, input)
          IN  /\ unit' = [unit EXCEPT !.obj = r.filter]
              /\ ret' = [value |-> r.output, stage |-> "process"]
    /\ UNCHANGED <<VoiceVars, ReverbVars, ParamVars, SeqVars>>

NextFilter ==
    FltSetCutoff \/ FltSetResonance \/ FltSetDrive \/ FltSetType \/ FltReset \/ FltProcess

SpecFilter == InitFilter /\ [][NextFilter]_vars

(***************************************************************************)
(* Actions: the setters of one component, called with values inside and    *)
(* outside the documented ranges                                           *)
(***************************************************************************)
RateInputs == {25, 80}              \* chorus rate: 0.25 Hz, 0.8 Hz
DepthInputs == {10, 60}
MixInputs == {40, 150}              \* 0.4, and 1.5 (above 1)
FrequencyInputs == {0, 26163, 3000000}   \* 0 Hz, 261.63 Hz, 30 kHz
LfoRateInputs == {0, 5000, 250000}       \* 0 Hz, 5 Hz, 250 Hz
ReverbDecayInputs == {20, 42}       \* 2 s, and 4.2 s (within 0.5 s of the default)
LowCutInputs == {200}

Units ==
    { [kind |-> "LadderFilter", obj |-> LadderFilter_new(VoiceSampleRate)],
      [kind |-> "Oscillator", obj |-> Oscillator_new(VoiceSampleRate)],
      [kind |-> "LFO", obj |-> LFO_new(VoiceSampleRate)],
      [kind |-> "Envelope", obj |-> Envelope_new(VoiceSampleRate)],
      [kind |-> "Chorus", obj |-> Chorus_new],
      [kind |-> "Reverb", obj |-> Reverb_new],
      [kind |-> "LongReverb"] }     \* the LongReverb under test is lr

InitSetters == \E u \in Units : InitUnit(u)

OscSetFrequency ==
    /\ unit.kind = "Oscillator"
    /\ \E x \in FrequencyInputs : UnitCall(Oscillator_setFrequency(unit.obj, x))

LfoSetRate ==
    /\ unit.kind = "LFO"
    /\ \E x \in LfoRateInputs : UnitCall(LFO_setRate(unit.obj, x))

ChoSetRate ==
    /\ unit.kind = "Chorus"
    /\ \E x \in RateInputs : UnitCall(Chorus_setRate(unit.obj, x))

ChoSetDepth ==
    /\ unit.kind = "Chorus"
    /\ \E x \in DepthInputs : UnitCall(Chorus_setDepth(unit.obj, x))

ChoSetMixCall(x) == unit.kind = "Chorus" /\ UnitCall(Chorus_setMix(unit.obj, x))

ChoSetMix == \E x \in MixInputs : ChoSetMixCall(x)

ChoSetEnabledCall(b) == unit.kind = "Chorus" /\ UnitCall(Chorus_setEnabled(unit.obj, b))

ChoSetEnabled == \E b \in BOOLEAN : ChoSetEnabledCall(b)

RevSetDecay ==
    /\ unit.kind = "Reverb"
    /\ \E x \in ReverbDecayInputs : UnitCall(Reverb_setDecay(unit.obj, x))

RevSetMix ==
    /\ unit.kind = "Reverb"
    /\ \E x \in MixInputs : UnitCall(Reverb_setMix(unit.obj, x))

RevSetLowCut ==
    /\ unit.kind = "Reverb"
    /\ \E x \in LowCutInputs : UnitCall(Reverb_setLowCut(unit.obj, x))

LongReverbCall == unit.kind = "LongReverb" /\ NextReverb

NextSetters ==
    \/ FltSetCutoff \/ FltSetResonance \/ FltSetDrive \/ FltSetType
    \/ OscSetFrequency \/ LfoSetRate \/ EnvSetParams
    \/ ChoSetRate \/ ChoSetDepth \/ ChoSetMix \/ ChoSetEnabled
    \/ RevSetDecay \/ RevSetMix \/ RevSetLowCut
    \/ LongReverbCall

SpecSetters == InitSetters /\ [][NextSetters]_vars

(***************************************************************************)
(* Actions: one VoiceProcessor receiving noteOn / noteOff / param messages *)
(* between render blocks.  The voice starts from the constructor's state   *)
(* after the param messages of StartPatch; steps counts the noteOn         *)
(* messages.  A block of BlockSize samples at the LFO rate of StartPatch   *)
(* is one whole LFO cycle.  ret is the outcome of the latest step when it  *)
(* was a process call: the kind of block written, and isActive and         *)
(* ampEnv.isFinished() as they were at the start of the block.             *)
(***************************************************************************)
MaxNoteOns == 1
BlockSize == 441
NoteInputs == {72}
VelocityInputs == {100}
RenderParamInputs == { <<"lfo1Target", "pan">> }

StartPatch ==
    << <<"ampAttack", 1>>, <<"ampDecay", 1>>, <<"ampRelease", 1>>,
       <<"filterAttack", 1>>, <<"filterDecay", 1>>, <<"filterRelease", 1>>,
       <<"lfo1Rate", 100000>>, <<"lfo2Rate", 100000>>, <<"lfo1Target", "pitch">> >>

RECURSIVE VoiceProcessor_afterParams(_, _)
VoiceProcessor_afterParams(v, msgs) ==
    IF msgs = <<>> THEN v
    ELSE VoiceProcessor_afterParams(
             VoiceProcessor_setParam(v, Head(msgs)[1], Head(msgs)[2]), Tail(msgs))

NoBlock == [block |-> "none", wasActive |-> FALSE, wasFinished |-> FALSE]

InitVoice ==
    /\ VoicesInit
    /\ TransportInit
    /\ unit = NoUnit
    /\ ret = NoBlock
    /\ steps = 0
    /\ lr = LongReverb_new(44100)
    /\ eng = SynthEngine_init(44100)
    /\ vp = VoiceProcessor_afterParams(VoiceProcessor_new, StartPatch)
    /\ calls = 0
    /\ expA = eng
    /\ expB = eng
    /\ expOn = FALSE

VoiceMessage(v) ==
    /\ vp' = v
    /\ ret' = NoBlock
    /\ UNCHANGED <<VoiceVars, ReverbVars, eng, calls, expA, expB, expOn, unit, SeqVars>>

VNoteOn ==
    /\ steps < MaxNoteOns
    /\ steps' = steps + 1
    /\ \E note \in NoteInputs, velocity \in VelocityInputs :
          VoiceMessage(VoiceProcessor_noteOn(vp, note, velocity))

VNoteOff ==
    /\ UNCHANGED steps
    /\ VoiceMessage(VoiceProcessor_noteOff(vp))

VSetParam ==
    /\ UNCHANGED steps
    /\ \E i \in RenderParamInputs :
          VoiceMessage(VoiceProcessor_setParam(vp, i[1], i[2]))

\* one process call
VProcess ==
    /\ ret' = [block |-> IF VoiceProcessor_zeroPath(vp) THEN "zeros" ELSE "rendered",
               wasActive |-> vp.isActive,
               wasFinished |-> Envelope_isFinished(vp.ampEnv)]
    /\ vp' = VoiceProcessor_process(vp, BlockSize)
    /\ UNCHANGED <<VoiceVars, ReverbVars, eng, calls, expA, expB, expOn, unit, steps, SeqVars>>

NextVoice == VNoteOn \/ VNoteOff \/ VSetParam \/ VProcess

SpecVoice == InitVoice /\ [][NextVoice]_vars

\* the audio thread keeps calling process; the calls made while the
\* amplitude envelope is releasing are the ones the voice's end depends on
VProcessReleasing == vp.ampEnv.stage = "release" /\ VProcess

SpecVoiceFair == SpecVoice /\ WF_vars(VProcessReleasing)

(***************************************************************************)
(* C1: after noteOff(n) following noteOn(n), the voice created by the      *)
(* latest noteOn(n) is released (no longer active).                        *)
(***************************************************************************)
C1_NoteOffReleasesLatestVoice ==
    \A n \in DOMAIN lastCall :
        lastCall[n] = "off" => ~synth.objs[lastOn[n]].active

(***************************************************************************)
(* C2: after allNotesOff with no later noteOn, every voice that was        *)
(* started is released.                                                    *)
(***************************************************************************)
C2_StopReleasesEveryVoice ==
    stopIssued => ActiveVoices(synth) = {}

(***************************************************************************)
(* C3: at most one unreleased (active) voice exists for any one MIDI note. *)
(***************************************************************************)
C3_OneActiveVoicePerNote ==
    \A i, j \in ActiveVoices(synth) :
        synth.objs[i].note = synth.objs[j].note => i = j

(***************************************************************************)
(* C4: the number of voices allocated at the same time never exceeds       *)
(* maxVoices.                                                              *)
(***************************************************************************)
C4_PolyphonyCap ==
    /\ Cardinality(DOMAIN synth.voices) <= maxVoices
    /\ Cardinality(SoundingVoices(synth)) <= maxVoices

(***************************************************************************)
(* C5: once generation quiesces, the installed IR was generated from the   *)
(* latest decayTime, damping and stereoWidth.                              *)
(***************************************************************************)
GeneratedFrom(b, l) ==
    /\ b.decay = l.decayTime
    /\ b.damping = l.damping
    /\ b.stereoWidth = l.stereoWidth

C5_InstalledIRIsLatest ==
    (~lr.isGenerating /\ lr.convolverBuffer.exists) => GeneratedFrom(lr.convolverBuffer, lr)

(***************************************************************************)
(* C6: the buffer installed in the convolver is absent or completely       *)
(* generated (every sample written, then normalized), and while a          *)
(* generation is in progress the installed buffer does not change.         *)
(***************************************************************************)
Complete(b) == b.offset = b.numSamples /\ b.normalized

C6_InstalledValid ==
    lr.convolverBuffer.exists => (Complete(lr.convolverBuffer) /\ lr.irBuffer = lr.convolverBuffer)

C6_StaysWhileGenerating ==
    (lr.isGenerating /\ lr'.isGenerating) => lr'.convolverBuffer = lr.convolverBuffer

C6_InstalledIRComplete == []C6_InstalledValid /\ [][C6_StaysWhileGenerating]_vars

C6_Witness ==
    /\ lr.isGenerating
    /\ lr.gen.exists /\ ~Complete(lr.gen)
    /\ lr.convolverBuffer.exists
    /\ ~GeneratedFrom(lr.convolverBuffer, lr)

(***************************************************************************)
(* C7: IR generation is chunked and terminates: every run of processChunk  *)
(* writes between 1 and 44100 samples, the offset after k chunks is        *)
(* min(k * 44100, numSamples), the installed buffer took                   *)
(* ceil(numSamples / 44100) chunks, and a generation in progress always    *)
(* ends with isGenerating false.                                           *)
(***************************************************************************)
C7_GenShape ==
    /\ lr.isGenerating <=> lr.gen.exists
    /\ lr.isGenerating <=> lr.genPhase # "idle"
    /\ lr.gen.exists =>
        /\ lr.gen.chunks >= 1
        /\ lr.gen.offset = Min(lr.gen.chunks * chunkSize, lr.gen.numSamples)
        /\ lr.genPhase = "filling" => (lr.gen.offset < lr.gen.numSamples /\ ~lr.gen.normalized)
        /\ lr.genPhase = "resolved" => Complete(lr.gen)
    /\ lr.convolverBuffer.exists =>
        /\ Complete(lr.convolverBuffer)
        /\ lr.convolverBuffer.chunks = CeilDiv(lr.convolverBuffer.numSamples, chunkSize)

C7_ChunkStep ==
    ChunkTimeout =>
        LET after == IF lr'.gen.exists THEN lr'.gen ELSE lr'.convolverBuffer
        IN /\ after.offset > lr.gen.offset
           /\ after.offset - lr.gen.offset <= chunkSize
           /\ after.chunks = lr.gen.chunks + 1
           /\ after.offset = after.numSamples => (~lr'.isGenerating /\ Complete(lr'.convolverBuffer))

C7_ChunkedAndTerminates ==
    /\ []C7_GenShape
    /\ [][C7_ChunkStep]_vars
    /\ (lr.isGenerating ~> ~lr.isGenerating)

C7_Witness ==
    /\ lr.convolverBuffer.exists
    /\ lr.convolverBuffer.chunks = 9
    /\ lr.convolverBuffer.numSamples % chunkSize # 0
    /\ ~lr.isGenerating

(***************************************************************************)
(* C8: setPreDelay, setDryWet and setParams carrying only preDelay/dryWet  *)
(* never start a generation: isGenerating, the generation in progress, the *)
(* installed IR and decayTime, damping, stereoWidth are unchanged.         *)
(***************************************************************************)
SetParamsDownstream ==
    \E p \in ParamsInputs : DownstreamOnly(p) /\ LRStep(LongReverb_setParams(lr, p))

C8_DownstreamStep ==
    (SetPreDelay \/ SetDryWet \/ SetParamsDownstream) =>
        /\ lr'.isGenerating = lr.isGenerating
        /\ lr'.gen = lr.gen
        /\ lr'.genPhase = lr.genPhase
        /\ lr'.convolverBuffer = lr.convolverBuffer
        /\ lr'.irBuffer = lr.irBuffer
        /\ lr'.decayTime = lr.decayTime
        /\ lr'.damping = lr.damping
        /\ lr'.stereoWidth = lr.stereoWidth

C8_DownstreamNeverRegenerates == [][C8_DownstreamStep]_vars

C8_Witness ==
    /\ ~lr.isGenerating
    /\ lr.convolverBuffer.exists
    /\ lr.preDelayTarget = 200
    /\ lr.wetTarget = 50

(***************************************************************************)
(* C9: two setParam calls with distinct names leave the engine and its     *)
(* effects in the same final state in either order, once IR generation has *)
(* finished.                                                               *)
(***************************************************************************)
C9_OrderIndependent ==
    (expOn /\ Quiescent(expA) /\ Quiescent(expB)) => expA = expB

(***************************************************************************)
(* C10 as claimed: setParam with an unknown name changes nothing, neither  *)
(* in the engine nor in the voice.                                         *)
(***************************************************************************)
EngSetUnknown(name) ==
    \E i \in ParamInputs : i[1] = name /\ EngSetParamCall(i[1], i[2])

VoiceSetUnknown(name) ==
    \E i \in VoiceParamInputs : i[1] = name /\ VoiceSetParamCall(i[1], i[2])

C10_UnknownChangesNothingStep ==
    \A name \in UnknownNames :
        (EngSetUnknown(name) \/ VoiceSetUnknown(name)) => (eng' = eng /\ vp' = vp)

C10_UnknownChangesNothing == [][C10_UnknownChangesNothingStep]_vars

(***************************************************************************)
(* C10 amended: setParam with an unknown name changes no effect state and  *)
(* no other stored parameter; it only records the name with its value in   *)
(* the parameter map (SynthEngine.currentParams, VoiceProcessor.params).   *)
(***************************************************************************)
OnlyRecords(before, after, name) ==
    /\ DOMAIN after = DOMAIN before \cup {name}
    /\ \A k \in (DOMAIN before) \ {name} : after[k] = before[k]

C10_UnknownOnlyRecordedStep ==
    \A name \in UnknownNames :
        /\ EngSetUnknown(name) =>
            /\ eng'.chorus = eng.chorus
            /\ eng'.reverb = eng.reverb
            /\ eng'.longReverb = eng.longReverb
            /\ eng'.eq = eng.eq
            /\ OnlyRecords(eng.currentParams, eng'.currentParams, name)
            /\ vp' = vp
        /\ VoiceSetUnknown(name) =>
            /\ OnlyRecords(vp.params, vp'.params, name)
            /\ eng' = eng

C10_UnknownOnlyRecorded == [][C10_UnknownOnlyRecordedStep]_vars

C10_Witness ==
    /\ "chorusFeedback" \in DOMAIN eng.currentParams
    /\ "glideTime" \in DOMAIN vp.params
    /\ eng.chorus = Chorus_setMix(Chorus_setDepth(Chorus_setRate(Chorus_new, 25), 25), 18)

(***************************************************************************)
(* C14: in every reachable state of an Envelope, stage = idle implies that *)
(* the envelope value is 0.                                                *)
(***************************************************************************)
C14_IdleImpliesZero ==
    unit.kind = "Envelope" => (unit.obj.stage = "idle" => unit.obj.value = 0)

\* idle reached through a release that ran out (the smoothed output is still up)
C14_Witness ==
    /\ unit.kind = "Envelope"
    /\ unit.obj.stage = "idle"
    /\ unit.obj.smoothedValue > 0
    /\ ret.stage = "release"

(***************************************************************************)
(* C15 as claimed: without reset(), the stage only moves forward through   *)
(* idle, attack, decay, sustain, release, idle: release is entered from    *)
(* any non-idle stage, idle only from release, and no operation moves the  *)
(* stage back to an earlier stage.                                         *)
(***************************************************************************)
StageRank(st) ==
    CASE st = "idle" -> 0 [] st = "attack" -> 1 [] st = "decay" -> 2
      [] st = "sustain" -> 3 [] st = "release" -> 4

C15_ForwardStep ==
    (unit.kind = "Envelope" /\ ~EnvReset /\ unit'.obj.stage # unit.obj.stage) =>
        \/ unit.obj.stage = "release" /\ unit'.obj.stage = "idle"
        \/ /\ unit.obj.stage # "release"
           /\ StageRank(unit'.obj.stage) > StageRank(unit.obj.stage)
           /\ unit'.obj.stage = "release" => unit.obj.stage # "idle"

C15_StageOnlyForward == [][C15_ForwardStep]_vars

(***************************************************************************)
(* C15 amended: next(), release_() and setParams() only move the stage     *)
(* forward (next: attack to decay, decay to sustain, release to idle;      *)
(* release_: any non-idle stage to release; setParams: no move), and       *)
(* trigger() enters attack from every stage, so a retrigger is the one     *)
(* move back.                                                              *)
(***************************************************************************)
NextMoves ==
    { <<"idle", "idle">>, <<"attack", "attack">>, <<"attack", "decay">>,
      <<"decay", "decay">>, <<"decay", "sustain">>, <<"sustain", "sustain">>,
      <<"release", "release">>, <<"release", "idle">> }

C15_MovesStep ==
    /\ EnvNext => <<unit.obj.stage, unit'.obj.stage>> \in NextMoves
    /\ EnvRelease =>
          unit'.obj.stage = (IF unit.obj.stage = "idle" THEN "idle" ELSE "release")
    /\ EnvSetParams => unit'.obj.stage = unit.obj.stage
    /\ EnvTrigger => unit'.obj.stage = "attack"

C15_ForwardExceptRetrigger == [][C15_MovesStep]_vars

\* attack with the value at 1: a retrigger right after attack handed over to decay
C15_Witness ==
    /\ unit.kind = "Envelope"
    /\ unit.obj.stage = "attack"
    /\ unit.obj.value = EnvUnit

(***************************************************************************)
(* C16: of two successive next() calls made in the attack stage the second *)
(* returns no less than the first, and of two successive next() calls made *)
(* in the release stage the second returns no more than the first,         *)
(* whatever happened before the stage was entered.                         *)
(***************************************************************************)
C16_MonotoneStep ==
    EnvNext =>
        /\ (unit.obj.stage = "attack" /\ ret.stage = "attack") =>
              ret'.value >= ret.value
        /\ (unit.obj.stage = "release" /\ ret.stage = "release") =>
              ret'.value <= ret.value

C16_MonotonePerStage == [][C16_MonotoneStep]_vars

(***************************************************************************)
(* C18: whatever the cutoff, the resonance (maximum included), the drive,  *)
(* the filter type and the input samples in [-1, 1], no sample returned by *)
(* LadderFilter.process exceeds 2.0 in magnitude.                          *)
(***************************************************************************)
C18_OutputBounded ==
    unit.kind = "LadderFilter" => Abs(ret.value) <= 2 * SampleUnit

\* maximum resonance and drive, the cutoff at the top of its range, and a
\* fourth-stage output beyond 2.0 behind the returned sample
C18_Witness ==
    /\ unit.kind = "LadderFilter"
    /\ ret.stage = "process"
    /\ unit.obj.resonance = Scale
    /\ unit.obj.smoothedCutoff = ((VoiceSampleRate * 49) \div 100) * 1000
    /\ Abs(unit.obj.stage[4]) > 2 * SampleUnit
    /\ unit.obj.filterType = "lp24"
    /\ ret.value # 0

(***************************************************************************)
(* C11: every setter clamps: the filter cutoff stays in                    *)
(* [20, 0.49 * sampleRate] and the resonance in [0, 1], the oscillator     *)
(* frequency in [0.01, sampleRate / 2], the LFO rate in [0.001, 100], the  *)
(* envelope times at or above 1 ms and the sustain in [0, 1], the          *)
(* LongReverb parameters in their ranges, and the mix and the dry / wet    *)
(* gain targets of Chorus and Reverb in [0, 1].                            *)
(***************************************************************************)
C11_SettersClamp ==
    /\ unit.kind = "LadderFilter" =>
          /\ unit.obj.cutoff \in 20..((unit.obj.sampleRate * 49) \div 100)
          /\ unit.obj.resonance \in 0..Scale
          /\ unit.obj.drive \in 1..50
    /\ unit.kind = "Oscillator" => unit.obj.frequency \in 1..(unit.obj.sampleRate * 50)
    /\ unit.kind = "LFO" => unit.obj.rate \in 1..100000
    /\ unit.kind = "Envelope" =>
          /\ unit.obj.attack >= 1 /\ unit.obj.decay >= 1 /\ unit.obj.release >= 1
          /\ unit.obj.sustain \in 0..Scale
    /\ unit.kind = "LongReverb" =>
          /\ lr.decayTime \in (1 * DecayScale)..(30 * DecayScale)
          /\ lr.preDelay \in 0..200
          /\ lr.damping \in 0..Scale
          /\ lr.dryWet \in 0..Scale
          /\ lr.stereoWidth \in 0..Scale
    /\ unit.kind = "Chorus" =>
          /\ unit.obj.mix \in 0..Scale
          /\ unit.obj.dryTarget \in 0..Scale
          /\ unit.obj.wetLTarget \in 0..Scale
          /\ unit.obj.wetRTarget \in 0..Scale
    /\ unit.kind = "Reverb" =>
          /\ unit.obj.mix \in 0..Scale
          /\ unit.obj.dryTarget \in 0..Scale
          /\ unit.obj.wetTarget \in 0..Scale

(***************************************************************************)
(* C17: while the Chorus is disabled the dry gain target is 1 and both wet *)
(* gain targets are 0, whatever setMix / setRate / setDepth calls are      *)
(* made; setMix stores the mix it is given, and setEnabled(true) sets the  *)
(* dry target to 1 - mix and the wet targets to mix for the stored mix.    *)
(***************************************************************************)
C17_Bypassed ==
    (unit.kind = "Chorus" /\ ~unit.obj.enabled) =>
        /\ unit.obj.dryTarget = Scale
        /\ unit.obj.wetLTarget = 0
        /\ unit.obj.wetRTarget = 0

C17_Step ==
    /\ \A x \in MixInputs : ChoSetMixCall(x) => unit'.obj.mix = x
    /\ ChoSetEnabledCall(TRUE) =>
          /\ unit'.obj.dryTarget = Scale - unit.obj.mix
          /\ unit'.obj.wetLTarget = unit.obj.mix
          /\ unit'.obj.wetRTarget = unit.obj.mix

C17_DisabledIsFullDry == []C17_Bypassed /\ [][C17_Step]_vars

\* disabled, with mix, rate and depth all changed from their defaults
C17_Witness ==
    /\ unit.kind = "Chorus"
    /\ ~unit.obj.enabled
    /\ unit.obj.mix = 40 /\ unit.obj.rate = 80 /\ unit.obj.depth = 60
    /\ unit.obj.lfoLTarget = 800

\* C13: process takes the all-zero path only when, at the start of the
\* block, the voice is inactive and ampEnv.isFinished() holds; isActive
\* becomes false only at the end of a rendered block where the amplitude
\* envelope is finished; and in every reachable state an inactive voice has
\* a finished amplitude envelope.
C13_ZeroPath == ret.block = "zeros" => (~ret.wasActive /\ ret.wasFinished)

C13_InactiveIsFinished == ~vp.isActive => Envelope_isFinished(vp.ampEnv)

C13_DeactivateStep ==
    (vp.isActive /\ ~vp'.isActive) =>
        (ret'.block = "rendered" /\ Envelope_isFinished(vp'.ampEnv))

C13_RenderedUntilFinished ==
    /\ [](C13_ZeroPath /\ C13_InactiveIsFinished)
    /\ [][C13_DeactivateStep]_vars

\* a released voice whose block was rendered because its envelope had not
\* finished
C13_Witness ==
    /\ vp.ampEnv.stage = "release"
    /\ vp.isActive
    /\ ret.block = "rendered"
    /\ ~ret.wasFinished

\* C12: once the amplitude envelope has been released by noteOff, and
\* unless a later noteOn triggers it again, repeated process calls lead to
\* ampEnv.isFinished() with the voice marked inactive; every process call
\* made on such a voice writes an all-zero block and leaves the voice as it
\* is.
C12_Done == ~vp.isActive /\ Envelope_isFinished(vp.ampEnv)

C12_SilentStep ==
    (C12_Done /\ ret'.block # "none") => (ret'.block = "zeros" /\ vp' = vp)

C12_ReleaseEndsInSilence ==
    /\ (vp.ampEnv.stage = "release") ~> (C12_Done \/ vp.ampEnv.stage = "attack")
    /\ [][C12_SilentStep]_vars

\* a played note that has ended and is rendered as zeros
C12_Witness == vp.note \in NoteInputs /\ steps > 0 /\ C12_Done /\ ret.block = "zeros"

\* C19: after a rendered block the filter's cutoff is the key-tracked base
\* cutoff of the sounding note plus the envelope and LFO contributions of
\* the block's last sample.
C19_KeyTrackedWhileRendering ==
    ret.block = "rendered" =>
        vp.filter.cutoff =
            LadderFilter_setCutoff(vp.filter,
                KeyTrackedCutoff(vp, vp.note) + vp.envCutoffMod + vp.lfoCutoffMod).cutoff

\* C20: after a rendered block each oscillator runs at the note's base
\* frequency times its octave/detune factor times 2^(pitchMod/1200), for
\* the pitchMod of the block's last sample, 0 included.
ExpectedOscFrequency(osc, octave, detune) ==
    Oscillator_setFrequency(osc,
        OscFrequency(midiToFreq(vp.note), octave, detune, Pow2(vp.pitchMod))).frequency

C20_OscillatorsFollowPitchMod ==
    ret.block = "rendered" =>
        /\ vp.osc1.frequency =
              ExpectedOscFrequency(vp.osc1, vp.params.osc1Octave, vp.params.osc1Detune)
        /\ vp.osc2.frequency =
              ExpectedOscFrequency(vp.osc2, vp.params.osc2Octave, vp.params.osc2Detune)
        /\ vp.osc3.frequency =
              ExpectedOscFrequency(vp.osc3, vp.params.osc3Octave, vp.params.osc3Detune)

(***************************************************************************)
(* Sequencer (polyphonic step sequencer)                                   *)
(*   times            : milliseconds                                       *)
(*   gate lengths     : hundredths of a step                               *)
(*   probabilities    : hundredths, Math.random() likewise (0..99)         *)
(* A Sequencer record holds the object's fields and, with them, what its   *)
(* methods act on outside the object:                                      *)
(*   intervals : the window's live setInterval timers started by it        *)
(*   timeouts  : the window's pending setTimeout callbacks (gate timers),  *)
(*               in the order they were scheduled                          *)
(*   ons, offs : the synth.noteOn / synth.noteOff calls made by the        *)
(*               latest operation                                          *)
(*   held      : history: for each note the synth holds for the sequencer, *)
(*               the time since its noteOn, its gate time and whether its  *)
(*               step was tied                                             *)
(* A pending gate timer carries the history flag own: the note instance it *)
(* was scheduled for is still the one the synth holds.                     *)
(***************************************************************************)
Sequencer_initSteps ==
    [i \in 0..127 |-> [notes |-> <<>>, tie |-> FALSE, probability |-> Scale]]

\* intervalId 0 stands for null; window timer handles are positive
Sequencer_new ==
    [steps |-> Sequencer_initSteps,
     length |-> 16,
     bpm |-> 120,
     currentStep |-> 0,
     isPlaying |-> FALSE,
     intervalId |-> 0,
     activeNotes |-> {},
     intervals |-> {},
     timeouts |-> <<>>,
     held |-> <<>>,
     ons |-> {},
     offs |-> {}]

Sequencer_addNote(s, stepIndex, note, velocity, gate) ==
    IF stepIndex \notin DOMAIN s.steps THEN s
    ELSE LET notes == s.steps[stepIndex].notes
             ev == [note |-> note, velocity |-> velocity, gate |-> gate]
             existing == {i \in 1..Len(notes) : notes[i].note = note}
         IN  [s EXCEPT !.steps[stepIndex].notes =
                  IF existing # {}
                  THEN [notes EXCEPT ![CHOOSE i \in existing : \A j \in existing : i <= j] = ev]
                  ELSE Append(notes, ev)]

\* Object.assign(this.steps[index], data)
Sequencer_setStep(s, index, data) ==
    IF index \in DOMAIN s.steps
    THEN [s EXCEPT !.steps[index] = data @@ s.steps[index]]
    ELSE s

Sequencer_setLength(s, length) == [s EXCEPT !.length = length]

Sequencer_stepTimeMs(s) == (60000 \div s.bpm) \div 4

\* synth.noteOff(n) for each n of notes, each removed from activeNotes; by
\* names the caller and own is the gate timer's flag (history)
Sequencer_release(s, notes, by, own) ==
    [s EXCEPT
        !.offs = s.offs \cup
                 {[note |-> n, age |-> s.held[n].age, gate |-> s.held[n].gate,
                   tie |-> s.held[n].tie, by |-> by, own |-> own] : n \in notes},
        !.held = [n \in (DOMAIN s.held) \ notes |-> s.held[n]],
        !.timeouts = [i \in DOMAIN s.timeouts |->
                         IF s.timeouts[i].note \in notes
                         THEN [s.timeouts[i] EXCEPT !.own = FALSE]
                         ELSE s.timeouts[i]],
        !.activeNotes = s.activeNotes \ notes]

\* the body of tick's loop over step.notes for one noteEvent
Sequencer_playNote(s, ev, tie) ==
    IF ev.note >= 0 /\ ev.note <= 127
    THEN LET gateTimeMs == (Sequencer_stepTimeMs(s) * ev.gate) \div Scale
             earlier == [i \in DOMAIN s.timeouts |->
                            IF s.timeouts[i].note = ev.note
                            THEN [s.timeouts[i] EXCEPT !.own = FALSE]
                            ELSE s.timeouts[i]]
         IN  [s EXCEPT
                 !.ons = s.ons \cup {ev.note},
                 !.activeNotes = s.activeNotes \cup {ev.note},
                 !.held = MapSet(s.held, ev.note,
                                 [age |-> 0, gate |-> gateTimeMs, tie |-> tie]),
                 !.timeouts =
                     IF tie THEN earlier
                     ELSE Append(earlier, [note |-> ev.note,
                                           remaining |-> gateTimeMs,
                                           own |-> TRUE])]
    ELSE s

RECURSIVE Sequencer_playNotes(_, _, _)
Sequencer_playNotes(s, notes, tie) ==
    IF notes = <<>> THEN s
    ELSE Sequencer_playNotes(Sequencer_playNote(s, Head(notes), tie), Tail(notes), tie)

Sequencer_advanceStep(s) ==
    [s EXCEPT !.currentStep = (s.currentStep + 1) % s.length]

\* random is the value Math.random() returns in the probability check
Sequencer_tick(s, random) ==
    LET step == s.steps[s.currentStep]
        prevStep == s.steps[(s.currentStep - 1 + s.length) % s.length]
        released == IF ~prevStep.tie
                    THEN Sequencer_release(s, s.activeNotes, "tick", FALSE)
                    ELSE s
    IN  IF random > step.probability
        THEN Sequencer_advanceStep(s)
        ELSE Sequencer_advanceStep(Sequencer_playNotes(released, step.notes, step.tie))

\* window.setInterval: a handle no live interval timer of the sequencer has
Window_setInterval(s) ==
    CHOOSE id \in 1..(Cardinality(s.intervals) + 1) :
        \A t \in s.intervals : t.id # id

\* play() without the early return of a playing sequencer
Sequencer_play_unguarded(s, random) ==
    Sequencer_tick(
        [s EXCEPT !.isPlaying = TRUE,
                  !.currentStep = 0,
                  !.intervalId = Window_setInterval(s),
                  !.intervals = s.intervals \cup
                      {[id |-> Window_setInterval(s),
                        period |-> Sequencer_stepTimeMs(s),
                        remaining |-> Sequencer_stepTimeMs(s)]}],
        random)

Sequencer_play(s, random) ==
    IF s.isPlaying THEN s
    ELSE Sequencer_tick(
             [s EXCEPT !.isPlaying = TRUE,
                       !.currentStep = 0,
                       !.intervalId = Window_setInterval(s),
                       !.intervals = s.intervals \cup
                           {[id |-> Window_setInterval(s),
                             period |-> Sequencer_stepTimeMs(s),
                             remaining |-> Sequencer_stepTimeMs(s)]}],
             random)

\* stop() that leaves the active notes sounding
Sequencer_stop_keepsNotes(s) ==
    [s EXCEPT !.isPlaying = FALSE,
              !.intervals = {t \in s.intervals : t.id # s.intervalId},
              !.intervalId = 0,
              !.currentStep = 0]

Sequencer_stop(s) ==
    LET cleared == IF s.intervalId # 0
                   THEN [s EXCEPT !.intervals = {t \in s.intervals : t.id # s.intervalId},
                                  !.intervalId = 0]
                   ELSE s
        off == Sequencer_release([cleared EXCEPT !.isPlaying = FALSE],
                                 s.activeNotes, "stop", FALSE)
    IN  [off EXCEPT !.currentStep = 0]

Sequencer_setBpm(s, bpm, random) ==
    LET t == [s EXCEPT !.bpm = Max(20, Min(300, bpm))]
    IN  IF t.isPlaying THEN Sequencer_play(Sequencer_stop(t), random) ELSE t

\* the setTimeout callback of tick, for the pending timer t
Sequencer_gateTimeout(s, t) ==
    IF t.note \in s.activeNotes
    THEN Sequencer_release(s, {t.note}, "gate", t.own)
    ELSE s

\* the window runs the setInterval callback of timer t and re-arms it
Window_runInterval(s, t, random) ==
    Sequencer_tick(
        [s EXCEPT !.intervals = (s.intervals \ {t}) \cup {[t EXCEPT !.remaining = t.period]}],
        random)

\* the window runs the pending setTimeout callback number i
Window_runTimeout(s, i) ==
    Sequencer_gateTimeout(
        [s EXCEPT !.timeouts = [j \in 1..(Len(s.timeouts) - 1) |->
                                    IF j < i THEN s.timeouts[j] ELSE s.timeouts[j + 1]]],
        s.timeouts[i])

\* d milliseconds pass
Window_elapse(s, d) ==
    [s EXCEPT !.intervals = {[t EXCEPT !.remaining = t.remaining - d] : t \in s.intervals},
              !.timeouts = [i \in DOMAIN s.timeouts |->
                               [s.timeouts[i] EXCEPT !.remaining = s.timeouts[i].remaining - d]],
              !.held = [n \in DOMAIN s.held |-> [s.held[n] EXCEPT !.age = s.held[n].age + d]]]

\* a timer is due: the window runs it before more time passes
Window_due(s) ==
    \/ \E t \in s.intervals : t.remaining = 0
    \/ \E i \in DOMAIN s.timeouts : s.timeouts[i].remaining = 0

(***************************************************************************)
(* Actions: Sequencer                                                      *)
(***************************************************************************)
MaxPendingTimeouts == 3       \* gate timers pending when play / setBpm is called
BpmInputs == {60, 120}
LengthInputs == {16, 32}
RandomInputs == {0, 99}
Quantum == (60000 \div 120) \div 4   \* time passes in 16th notes of the default tempo

\* a pattern with a repeated note, a two-step gate, a tied chord, a step
\* that plays with probability 1/2 and a note beyond the first 16 steps
DemoSequencer ==
    LET a == Sequencer_addNote(Sequencer_new, 0, 60, 100, 100)
        b == Sequencer_addNote(a, 1, 60, 100, 200)
        c == Sequencer_addNote(Sequencer_addNote(b, 2, 64, 100, 100), 2, 67, 100, 100)
        d == Sequencer_setStep(c, 2, [tie |-> TRUE])
        e == Sequencer_setStep(Sequencer_addNote(d, 4, 72, 100, 100), 4, [probability |-> 50])
    IN  Sequencer_addNote(e, 20, 48, 100, 100)

InitSequencer ==
    /\ VoicesInit
    /\ UnitInit(NoUnit)
    /\ lr = LongReverb_new(44100)
    /\ ParamsInit(44100)
    /\ sq = DemoSequencer
    /\ cm = <<>>

\* an operation starts with no synth call made yet
SeqCall(s) ==
    /\ sq' = s
    /\ UNCHANGED <<VoiceVars, ReverbVars, ParamVars, UnitVars, cm>>

SeqBegin == [sq EXCEPT !.ons = {}, !.offs = {}]

SeqPlay ==
    /\ Len(sq.timeouts) < MaxPendingTimeouts
    /\ \E random \in RandomInputs : SeqCall(Sequencer_play(SeqBegin, random))

SeqStop == SeqCall(Sequencer_stop(SeqBegin))

SeqSetBpm ==
    /\ Len(sq.timeouts) < MaxPendingTimeouts
    /\ \E bpm \in BpmInputs, random \in RandomInputs :
          SeqCall(Sequencer_setBpm(SeqBegin, bpm, random))

SeqSetLength ==
    \E length \in LengthInputs : SeqCall(Sequencer_setLength(SeqBegin, length))

SeqInterval ==
    \E t \in sq.intervals, random \in RandomInputs :
        /\ t.remaining = 0
        /\ SeqCall(Window_runInterval(SeqBegin, t, random))

SeqTimeout ==
    \E i \in DOMAIN sq.timeouts :
        /\ sq.timeouts[i].remaining = 0
        /\ SeqCall(Window_runTimeout(SeqBegin, i))

SeqElapse ==
    /\ ~Window_due(sq)
    /\ SeqCall(Window_elapse(SeqBegin, Quantum))

NextSequencer ==
    SeqPlay \/ SeqStop \/ SeqSetBpm \/ SeqSetLength \/ SeqInterval \/ SeqTimeout \/ SeqElapse

SpecSequencer == InitSequencer /\ [][NextSequencer]_vars

(***************************************************************************)
(* Claims: Sequencer                                                       *)
(***************************************************************************)
\* C21: a note of a non-tied step stays on for its gate time: unless
\* playback is stopped, its noteOff comes no earlier than gate step
\* durations after its noteOn, also for gates longer than one step.
C21_HeldForGate ==
    \A r \in sq.offs : (~r.tie /\ r.by # "stop") => r.age >= r.gate

\* C22: stop() sends noteOff for every active note, empties activeNotes,
\* cancels the step timer and resets currentStep to 0; while the sequencer
\* is stopped no operation, a gate timer firing late included, sends a
\* noteOn.
C22_StopStep ==
    SeqStop =>
        /\ {r.note : r \in sq'.offs} = sq.activeNotes
        /\ sq'.activeNotes = {}
        /\ sq'.intervals = {}
        /\ sq'.intervalId = 0
        /\ sq'.currentStep = 0
        /\ ~sq'.isPlaying

C22_StopReleasesAll ==
    /\ [](~sq.isPlaying => sq.ons = {})
    /\ [][C22_StopStep]_vars

\* stopped with notes just released while their gate timers are pending
C22_Witness ==
    ~sq.isPlaying /\ sq.offs # {} /\ sq.timeouts # <<>> /\ sq.activeNotes = {}

\* C23: a gate timer that is not the one scheduled for the instance the
\* synth holds never releases that instance before its own gate time.
C23_TimerReleasesOwnInstance ==
    \A r \in sq.offs : (r.by = "gate" /\ ~r.own) => r.age >= r.gate

\* C24: isPlaying holds exactly when a step interval timer is live, the
\* live timer is the one intervalId names, and there is never more than one.
C24_OneIntervalWhilePlaying ==
    /\ Cardinality(sq.intervals) <= 1
    /\ sq.isPlaying <=> (sq.intervals # {})
    /\ \A t \in sq.intervals : t.id = sq.intervalId
    /\ ~sq.isPlaying => sq.intervalId = 0

\* playing at the other tempo: play() and a setBpm restart have run
C24_Witness ==
    sq.isPlaying /\ sq.bpm = 60 /\ sq.currentStep > 1 /\ Cardinality(sq.intervals) = 1

\* C25: currentStep is always a step of the current sequence length.
C25_CurrentStepInRange ==
    0 <= sq.currentStep /\ sq.currentStep < sq.length

\* C26: setBpm leaves currentStep unchanged and plays no step.
C26_SetBpmStep ==
    SeqSetBpm => (sq'.currentStep = sq.currentStep /\ sq'.ons = {})

C26_SetBpmKeepsPosition == [][C26_SetBpmStep]_vars

(***************************************************************************)
(* ChannelManager                                                          *)
(* channels is the Map<number, Channel> as a function from channel id; a   *)
(* Channel is its mute and solo flags and its Sequencer.  op is history:   *)
(* the latest operation made on the manager or on one of its channels.     *)
(***************************************************************************)
Channel_new(id) ==
    [id |-> id, muted |-> FALSE, solo |-> FALSE, sequencer |-> Sequencer_new]

ChannelManager_new ==
    [channels |-> <<>>, nextChannelId |-> 1, isPlaying |-> FALSE, bpm |-> 120,
     op |-> "new"]

\* createChannel from the point its awaits have completed; the new
\* sequencer is not playing, so its setBpm plays no step
ChannelManager_createChannel(m) ==
    LET id == m.nextChannelId
        channel == [Channel_new(id) EXCEPT !.sequencer = Sequencer_setBpm(@, m.bpm, 0)]
    IN  [m EXCEPT !.nextChannelId = id + 1,
                  !.channels = MapSet(m.channels, id, channel)]

ChannelManager_hasSoloChannel(m) ==
    \E id \in DOMAIN m.channels : m.channels[id].solo

ChannelManager_play(m, random) ==
    IF m.isPlaying THEN m
    ELSE [m EXCEPT
             !.isPlaying = TRUE,
             !.channels = [id \in DOMAIN m.channels |->
                 LET channel == m.channels[id]
                 IN  IF ~channel.muted /\ (~ChannelManager_hasSoloChannel(m) \/ channel.solo)
                     THEN [channel EXCEPT !.sequencer = Sequencer_play(@, random)]
                     ELSE channel]]

ChannelManager_stop(m) ==
    [m EXCEPT
        !.isPlaying = FALSE,
        !.channels = [id \in DOMAIN m.channels |->
                         [m.channels[id] EXCEPT !.sequencer = Sequencer_stop(@)]]]

\* updateSoloMuteStates that starts and stops sequencers by solo alone
ChannelManager_updateSoloMuteStates_ignoresMute(m, random) ==
    [m EXCEPT !.channels = [id \in DOMAIN m.channels |->
        LET channel == m.channels[id]
            shouldPlay == ~ChannelManager_hasSoloChannel(m) \/ channel.solo
        IN  IF ~m.isPlaying THEN channel
            ELSE IF shouldPlay /\ ~channel.sequencer.isPlaying
            THEN [channel EXCEPT !.sequencer = Sequencer_play(@, random)]
            ELSE IF ~shouldPlay /\ channel.sequencer.isPlaying
            THEN [channel EXCEPT !.sequencer = Sequencer_stop(@)]
            ELSE channel]]

ChannelManager_updateSoloMuteStates(m, random) ==
    [m EXCEPT !.channels = [id \in DOMAIN m.channels |->
        LET channel == m.channels[id]
            shouldPlay == ~ChannelManager_hasSoloChannel(m) \/ channel.solo
        IN  IF ~m.isPlaying THEN channel
            ELSE IF shouldPlay /\ ~channel.muted /\ ~channel.sequencer.isPlaying
            THEN [channel EXCEPT !.sequencer = Sequencer_play(@, random)]
            ELSE IF (~shouldPlay \/ channel.muted) /\ channel.sequencer.isPlaying
            THEN [channel EXCEPT !.sequencer = Sequencer_stop(@)]
            ELSE channel]]

ChannelManager_setBpm(m, bpm, random) ==
    LET clamped == Max(20, Min(300, bpm))
    IN  [m EXCEPT
            !.bpm = clamped,
            !.channels = [id \in DOMAIN m.channels |->
                [m.channels[id] EXCEPT !.sequencer = Sequencer_setBpm(@, clamped, random)]]]

(***************************************************************************)
(* Actions: ChannelManager                                                 *)
(***************************************************************************)
MaxChannels == 2              \* channels created in one run of SpecChannels
MaxChannelStep == 2           \* step up to which a channel's sequencer advances there

InitChannels ==
    /\ VoicesInit
    /\ UnitInit(NoUnit)
    /\ lr = LongReverb_new(44100)
    /\ ParamsInit(44100)
    /\ sq = <<>>
    /\ cm = ChannelManager_new

CmCall(m, op) ==
    /\ cm' = [m EXCEPT !.op = op]
    /\ UNCHANGED <<VoiceVars, ReverbVars, ParamVars, UnitVars, sq>>

CmCreateChannel ==
    /\ cm.nextChannelId <= MaxChannels
    /\ CmCall(ChannelManager_createChannel(cm), "createChannel")

\* channel.muted = value, channel.solo = value
CmSetMuted ==
    \E id \in DOMAIN cm.channels, value \in BOOLEAN :
        CmCall([cm EXCEPT !.channels[id].muted = value], "muted")

CmSetSolo ==
    \E id \in DOMAIN cm.channels, value \in BOOLEAN :
        CmCall([cm EXCEPT !.channels[id].solo = value], "solo")

CmUpdateSoloMuteStates ==
    \E random \in RandomInputs :
        CmCall(ChannelManager_updateSoloMuteStates(cm, random), "updateSoloMuteStates")

CmPlay ==
    \E random \in RandomInputs :
        CmCall(ChannelManager_play(cm, random),
               IF cm.isPlaying THEN "play while playing" ELSE "play")

CmStop == CmCall(ChannelManager_stop(cm), "stop")

CmSetBpm ==
    \E bpm \in BpmInputs, random \in RandomInputs :
        CmCall(ChannelManager_setBpm(cm, bpm, random), "setBpm")

\* the step interval timer of a channel's sequencer fires
CmInterval ==
    \E id \in DOMAIN cm.channels, random \in RandomInputs :
        \E t \in cm.channels[id].sequencer.intervals :
            /\ cm.channels[id].sequencer.currentStep < MaxChannelStep
            /\ CmCall([cm EXCEPT !.channels[id].sequencer = Window_runInterval(@, t, random)],
                      "tick")

NextChannels ==
    \/ CmCreateChannel \/ CmSetMuted \/ CmSetSolo \/ CmUpdateSoloMuteStates
    \/ CmPlay \/ CmStop \/ CmSetBpm \/ CmInterval

SpecChannels == InitChannels /\ [][NextChannels]_vars

\* C27: right after play() from the stopped state, and right after
\* updateSoloMuteStates() while the transport is playing, a channel's
\* sequencer is playing exactly when the channel is not muted and is soloed
\* or no channel is; right after stop() no channel's sequencer is playing.
C27_ShouldPlay(channel) ==
    ~channel.muted /\ (~ChannelManager_hasSoloChannel(cm) \/ channel.solo)

C27_SoloMuteDecidesPlaying ==
    /\ (cm.op = "play" \/ (cm.op = "updateSoloMuteStates" /\ cm.isPlaying)) =>
          \A id \in DOMAIN cm.channels :
              cm.channels[id].sequencer.isPlaying <=> C27_ShouldPlay(cm.channels[id])
    /\ cm.op = "stop" =>
          \A id \in DOMAIN cm.channels : ~cm.channels[id].sequencer.isPlaying

\* after updateSoloMuteStates during playback: an unmuted channel that is
\* silenced by another channel's solo, which is playing
C27_Witness ==
    /\ cm.op = "updateSoloMuteStates"
    /\ cm.isPlaying
    /\ \E a, b \in DOMAIN cm.channels :
          /\ cm.channels[a].solo /\ cm.channels[a].sequencer.isPlaying
          /\ ~cm.channels[b].solo /\ ~cm.channels[b].muted
          /\ ~cm.channels[b].sequencer.isPlaying

(***************************************************************************)
(* Claims: LongReverb snapshot and bypass                                  *)
(***************************************************************************)
\* C28: the IR installed in the convolver is built from one snapshot of
\* (decayTime, damping, stereoWidth): a generation starts from the
\* parameters of that moment, with the length decayTime gives, keeps them
\* until it ends whatever the setters do meanwhile, and the buffer installed
\* is the one generated from them.
C28_LengthOf(b) ==
    b.numSamples = CeilDiv(lr.sampleRate * b.decay, DecayScale)

C28_SameSnapshot(a, b) ==
    /\ a.numSamples = b.numSamples
    /\ a.decay = b.decay
    /\ a.damping = b.damping
    /\ a.stereoWidth = b.stereoWidth

C28_Step ==
    /\ (~lr.isGenerating /\ lr'.isGenerating) =>
          /\ lr'.gen.decay = lr'.decayTime
          /\ lr'.gen.damping = lr'.damping
          /\ lr'.gen.stereoWidth = lr'.stereoWidth
    /\ (lr.isGenerating /\ lr'.isGenerating) => C28_SameSnapshot(lr'.gen, lr.gen)
    /\ lr'.convolverBuffer # lr.convolverBuffer =>
          lr.isGenerating /\ C28_SameSnapshot(lr'.convolverBuffer, lr.gen)

C28_OneSnapshotPerIR ==
    /\ [](lr.isGenerating => C28_LengthOf(lr.gen))
    /\ [](lr.convolverBuffer.exists => C28_LengthOf(lr.convolverBuffer))
    /\ [][C28_Step]_vars

\* an IR of several chunks is installed and damping was changed while it
\* was being generated
C28_Witness ==
    /\ ~lr.isGenerating
    /\ lr.convolverBuffer.exists
    /\ lr.convolverBuffer.chunks > 1
    /\ lr.convolverBuffer.damping # lr.damping

\* C29: while the reverb is disabled the wet gain target is 0 and the dry
\* gain target is 1.
C29_DisabledStaysDry ==
    ~lr.enabled => (lr.wetTarget = 0 /\ lr.dryTarget = Scale)

(***************************************************************************)
(* Envelope: a note that is triggered once and held                        *)
(***************************************************************************)
\* the note's trigger(), on the idle envelope
EnvFirstTrigger == unit.obj.stage = "idle" /\ EnvTrigger

\* next() as the audio thread calls it, once per sample for as long as the
\* voice renders
EnvNextHeld ==
    /\ unit.kind = "Envelope"
    /\ unit' = [unit EXCEPT !.obj = Envelope_next(@)]
    /\ ret' = [value |-> unit'.obj.smoothedValue, stage |-> unit.obj.stage]
    /\ UNCHANGED <<VoiceVars, ReverbVars, ParamVars, SeqVars, steps>>

NextSustain == EnvFirstTrigger \/ EnvSetParams \/ EnvNextHeld

\* the audio thread keeps calling next() while the envelope still moves
SpecSustain == InitEnvelope /\ [][NextSustain]_vars /\ WF_vars(EnvNextHeld)

\* C30: a triggered envelope that is neither released nor reset reaches the
\* sustain stage with its value at the current sustain level, whatever
\* setParams calls are made on the way.
C30_ReachesSustain ==
    (unit.obj.stage = "attack") ~>
        (unit.obj.stage = "sustain" /\ unit.obj.value = SustainLevel(unit.obj))


====
